---------------------------- MODULE Spec2Model ----------------------------
(***************************************************************************)
(* A model of the line editor (package line): the editing operations of    *)
(* internal_functions.go, the key callback machine of                      *)
(* key_callback_machine.go, the input decoder, refresh algorithm, GetLine  *)
(* event loop, history search, tab completion and styling of impl.go, and  *)
(* the suggestion manager and suggestion display.                          *)
(*                                                                         *)
(* The editor, a lineEditor, is the record l.  Every Go function that takes *)
(* the editor is an operator from an editor record to the editor record it *)
(* leaves behind; a loop in the Go code is a RECURSIVE operator.           *)
(* Strings are sequences of code points (Go's []rune); byte strings are    *)
(* sequences of bytes and the conversions between the two are EncodeRune   *)
(* and DecodeRunes, which follow Go's utf8 package.                        *)
(***************************************************************************)
EXTENDS Integers, Sequences, FiniteSets, TLC

VARIABLES
    l,          \* the lineEditor, with its channels and its terminal
    gl,         \* the loop task: where GetLine is, and what it returned
    reader,     \* the reader goroutine started by GetLine
    env,        \* the terminal's side: the bytes waiting on standard input,
                \* whether it is at EOF, the keys typed and signals sent
    obs         \* what an observer has seen of the last step (history only)

vars == <<l, gl, reader, env, obs>>

---------------------------------------------------------------------------
(* Bounds of the model *)

\* longest buffer the editing operations build
MaxLen == 3
\* editing operations decoded between two refreshes (one read holds up to 16 bytes)
MaxOps == 2
\* refreshes followed in one behaviour of SpecRefresh
MaxRefreshes == 2
\* calls of RegisterKeybinding the program makes
MaxRegs == 2
\* calls of GetLine the program makes
MaxCalls == 2
\* keys typed at the terminal
MaxInput == 2
\* SIGINT signals sent to the process
MaxSignals == 1

---------------------------------------------------------------------------
(* Sequences *)

Take(s, n) == SubSeq(s, 1, n)
Drop(s, n) == SubSeq(s, n + 1, Len(s))
Min(a, b) == IF a < b THEN a ELSE b
\* F of the value of v, v being computed once: the statements of the source
\* run one after the other, each on the state the one before left
Then(v, F(_)) == CHOOSE r \in {F(x) : x \in {v}} : TRUE
\* the same for an editor, when the task may have panicked or blocked in
\* the statements before: the statements after are not run
ThenRun(v, F(_)) ==
    CHOOSE r \in {IF x.blockedOn # "none" THEN x ELSE F(x) : x \in {v}} : TRUE
Max(a, b) == IF a > b THEN a ELSE b

\* s with the element at 0-based index i removed: append(s[:i], s[i+1:]...)
RemoveIndex(s, i) == Take(s, i) \o Drop(s, i + 1)
\* s with ch put at 0-based index i
InsertIndex(s, i, ch) == Take(s, i) \o <<ch>> \o Drop(s, i)
\* 0-based read of a Go slice
At(s, i) == s[i + 1]

\* uint32 arithmetic.  A uint32 of 2^31 or more is kept as the negative
\* integer it is congruent to modulo 2^32, so that sums and differences wrap
\* as they do in Go; Ult is the order of the unsigned values.
U32(n) == n
Ult(a, b) == IF (a < 0) = (b < 0) THEN a < b ELSE b < 0

\* a % n of the unsigned values, for 0 < n < 2^15
UMod(a, n) ==
    IF a >= 0 THEN a % n
    ELSE ((a % n) + (((65536 % n) * (65536 % n)) % n)) % n

---------------------------------------------------------------------------
(* UTF-8, as Go's unicode/utf8 and the []rune(string) conversion do it *)

RuneError == 65533

\* utf8.RuneLen
RuneLen(r) ==
    IF r < 128 THEN 1
    ELSE IF r < 2048 THEN 2
    ELSE IF r < 65536 THEN 3
    ELSE 4

\* string(rune): the UTF-8 bytes of one code point
EncodeRune(r) ==
    IF r < 128 THEN <<r>>
    ELSE IF r < 2048 THEN <<192 + (r \div 64), 128 + (r % 64)>>
    ELSE IF r < 65536 THEN
        <<224 + (r \div 4096), 128 + ((r \div 64) % 64), 128 + (r % 64)>>
    ELSE <<240 + (r \div 262144), 128 + ((r \div 4096) % 64),
           128 + ((r \div 64) % 64), 128 + (r % 64)>>

RECURSIVE EncodeRunes(_)
EncodeRunes(rs) ==
    IF rs = <<>> THEN <<>> ELSE EncodeRune(Head(rs)) \o EncodeRunes(Tail(rs))

\* len(string): the byte length of a string of code points
ByteLen(rs) == Len(EncodeRunes(rs))

IsCont(b) == b >= 128 /\ b <= 191

\* every byte taken as a code point of its own
DecodeRuneByte(bs) == <<bs[1], 1>>

\* utf8.DecodeRune: <<code point, bytes used>>; an invalid or cut-off
\* sequence decodes to RuneError of width 1
DecodeRune(bs) ==
    LET b0 == bs[1]
        n  == Len(bs) IN
    IF b0 < 128 THEN <<b0, 1>>
    ELSE IF b0 >= 194 /\ b0 <= 223 THEN
        IF n >= 2 /\ IsCont(bs[2])
        THEN <<(b0 - 192) * 64 + (bs[2] - 128), 2>>
        ELSE <<RuneError, 1>>
    ELSE IF b0 >= 224 /\ b0 <= 239 THEN
        IF /\ n >= 3 /\ IsCont(bs[2]) /\ IsCont(bs[3])
           /\ (b0 = 224 => bs[2] >= 160)
           /\ (b0 = 237 => bs[2] <= 159)
        THEN <<(b0 - 224) * 4096 + (bs[2] - 128) * 64 + (bs[3] - 128), 3>>
        ELSE <<RuneError, 1>>
    ELSE IF b0 >= 240 /\ b0 <= 244 THEN
        IF /\ n >= 4 /\ IsCont(bs[2]) /\ IsCont(bs[3]) /\ IsCont(bs[4])
           /\ (b0 = 240 => bs[2] >= 144)
           /\ (b0 = 244 => bs[2] <= 143)
        THEN <<(b0 - 240) * 262144 + (bs[2] - 128) * 4096
                 + (bs[3] - 128) * 64 + (bs[4] - 128), 4>>
        ELSE <<RuneError, 1>>
    ELSE <<RuneError, 1>>

\* []rune(string(bytes))
RECURSIVE DecodeRunes(_)
DecodeRunes(bs) ==
    IF bs = <<>> THEN <<>>
    ELSE LET d == DecodeRune(bs) IN <<d[1]>> \o DecodeRunes(Drop(bs, d[2]))

---------------------------------------------------------------------------
(* Character classes and case, internal_functions.go *)

isAlphaNumeric(c) ==
    \/ (c >= 97 /\ c <= 122)
    \/ (c >= 65 /\ c <= 90)
    \/ (c >= 48 /\ c <= 57)

isSpace(c) == c \in {32, 9, 10, 13}

\* unicode.ToUpper and unicode.ToLower on the Latin-1 letters
ToUpper(c) ==
    IF (c >= 97 /\ c <= 122) \/ (c >= 224 /\ c <= 254 /\ c # 247)
    THEN c - 32 ELSE c
ToLower(c) ==
    IF (c >= 65 /\ c <= 90) \/ (c >= 192 /\ c <= 222 /\ c # 215)
    THEN c + 32 ELSE c

---------------------------------------------------------------------------
(* Editing operations, internal_functions.go and impl.go.                  *)
(* Each takes the editor and gives the editor it leaves.  l.bell is set    *)
(* when the operation writes "\a" to stderr.                               *)

\* lineEditor.removeAtIndex
removeAtIndex(e, index) ==
    IF ~Ult(index, Len(e.buffer)) THEN [e EXCEPT !.blockedOn = "panic"]
    ELSE
    [e EXCEPT !.buffer = RemoveIndex(e.buffer, index),
              !.extraForwardLines =
                  IF At(e.buffer, index) = 10 THEN @ + 1 ELSE @,
              !.charsTouchedInTheMiddle = @ + 1]

\* lineEditor.InsertChar.  A cursor beyond the buffer is reached only after
\* the buffer was replaced by an empty slice (impl.go 217, 485, 1617), whose
\* capacity is zero: l.buffer[:l.cursor] then panics and the task ends.
InsertChar(e, ch) ==
    LET p == [e EXCEPT !.pendingChars = @ \o EncodeRune(ch)] IN
    IF Ult(Len(p.buffer), p.cursor) THEN [p EXCEPT !.blockedOn = "panic"]
    ELSE IF p.cursor = Len(p.buffer)
    THEN [p EXCEPT !.buffer = Append(@, ch),
                   !.cursor = Len(p.buffer) + 1,
                   !.inlineSearchCursor = Len(p.buffer) + 1]
    ELSE [p EXCEPT !.buffer = InsertIndex(@, p.cursor, ch),
                   !.charsTouchedInTheMiddle = @ + 1,
                   !.cursor = @ + 1,
                   !.inlineSearchCursor = p.cursor + 1]

\* lineEditor.InsertString
RECURSIVE InsertString(_, _)
InsertString(e, str) ==
    IF str = <<>> THEN e ELSE InsertString(InsertChar(e, Head(str)), Tail(str))

\* lineEditor.SetLine.  line is a Go string, a sequence of bytes:
\* min(l.cursor, uint32(len(line))) takes its byte length and []rune(line)
\* decodes it
SetLine(e, line) ==
    LET c == Min(e.cursor, Len(line)) IN
    [e EXCEPT !.inlineSearchCursor = c,
              !.cursor = c,
              !.charsTouchedInTheMiddle = Len(e.buffer),
              !.refreshNeeded = TRUE,
              !.buffer = DecodeRunes(line)]

\* lineEditor.LineUpTo and lineEditor.Line: string(l.buffer[:n]), the bytes
\* of a Go string
LineUpTo(e, n) == EncodeRunes(Take(e.buffer, n))
Line(e) == LineUpTo(e, Len(e.buffer))

\* lineEditor.Finish
Finish(e) ==
    [e EXCEPT !.interruptHandlerRequestedFinish =
                  IF e.inInterruptHandler THEN TRUE ELSE @,
              !.finish = TRUE]

\* finish
finish(e) == Finish(e)

\* finishEdit; "<EOF>\n" goes to stdout, and the call is listed in l.calls
finishEdit(e) ==
    LET logged == [e EXCEPT !.calls =
                       Append(@, [fn |-> "finishEdit", id |-> 0, ret |-> FALSE])] IN
    IF ~e.alwaysRefresh
    THEN Finish([logged EXCEPT !.inputError = "ECANCELED"])
    ELSE logged

RECURSIVE cursorLeftWordLoop(_, _)
cursorLeftWordLoop(e, skippedAtLeastOneCharacter) ==
    IF e.cursor = 0 THEN e
    ELSE IF skippedAtLeastOneCharacter
            /\ isAlphaNumeric(At(e.buffer, e.cursor - 1)) THEN e
    ELSE cursorLeftWordLoop([e EXCEPT !.cursor = @ - 1], TRUE)

cursorLeftWord(e) ==
    LET m == IF e.cursor > 0 THEN cursorLeftWordLoop(e, FALSE) ELSE e IN
    [m EXCEPT !.inlineSearchCursor = m.cursor]

\* cursorLeftCharacter leaving the cursor where it is
cursorLeftCharacterStay(e) == e

cursorLeftCharacter(e) ==
    LET m == IF e.cursor > 0 THEN [e EXCEPT !.cursor = @ - 1] ELSE e IN
    [m EXCEPT !.inlineSearchCursor = m.cursor]

\* the loop of cursorRightWord over the buffer with the space appended
RECURSIVE cursorRightWordLoop(_)
cursorRightWordLoop(e) ==
    IF e.cursor >= Len(e.buffer) THEN e
    ELSE LET m == [e EXCEPT !.cursor = @ + 1] IN
         IF ~isAlphaNumeric(At(m.buffer, m.cursor)) THEN m
         ELSE cursorRightWordLoop(m)

cursorRightWord(e) ==
    LET m == IF e.cursor < Len(e.buffer)
             THEN [cursorRightWordLoop([e EXCEPT !.buffer = Append(@, 32)])
                     EXCEPT !.buffer = e.buffer]
             ELSE e IN
    [m EXCEPT !.inlineSearchCursor = m.cursor, !.searchOffset = 0]

cursorRightCharacter(e) ==
    LET m == IF e.cursor < Len(e.buffer)
             THEN [e EXCEPT !.cursor = @ + 1] ELSE e IN
    [m EXCEPT !.inlineSearchCursor = m.cursor, !.searchOffset = 0]

goHome(e) ==
    [e EXCEPT !.cursor = 0, !.inlineSearchCursor = 0, !.searchOffset = 0]

goEnd(e) ==
    [e EXCEPT !.cursor = Len(e.buffer),
              !.inlineSearchCursor = Len(e.buffer),
              !.searchOffset = 0]

\* an eraseCharacterBackwards that is silent at the start of the line
eraseCharacterBackwardsSilent(e) ==
    IF e.isSearching \/ e.cursor = 0 THEN e
    ELSE [removeAtIndex(e, e.cursor - 1) EXCEPT
              !.cursor = e.cursor - 1,
              !.inlineSearchCursor = e.cursor - 1,
              !.refreshNeeded = TRUE]

eraseCharacterBackwards(e) ==
    IF e.isSearching THEN e
    ELSE IF e.cursor = 0 THEN [e EXCEPT !.bell = TRUE]
    ELSE [removeAtIndex(e, e.cursor - 1) EXCEPT
              !.cursor = e.cursor - 1,
              !.inlineSearchCursor = e.cursor - 1,
              !.refreshNeeded = TRUE]

eraseCharacterForwards(e) ==
    IF e.cursor = Len(e.buffer) THEN [e EXCEPT !.bell = TRUE]
    ELSE [removeAtIndex(e, e.cursor) EXCEPT !.refreshNeeded = TRUE]

RECURSIVE eraseAlnumWordBackwardsLoop(_, _)
eraseAlnumWordBackwardsLoop(e, hasSeenAlnum) ==
    IF ~(e.cursor > 0) THEN e
    ELSE IF ~isAlphaNumeric(At(e.buffer, e.cursor - 1)) /\ hasSeenAlnum THEN e
    ELSE eraseAlnumWordBackwardsLoop(
             eraseCharacterBackwards(e),
             hasSeenAlnum \/ isAlphaNumeric(At(e.buffer, e.cursor - 1)))

\* (during a search eraseCharacterBackwards removes nothing and the Go loop
\* does not end; the default bindings of the search editor are its own)
eraseAlnumWordBackwards(e) == eraseAlnumWordBackwardsLoop(e, FALSE)

RECURSIVE eraseAlnumWordForwardsLoop(_, _)
eraseAlnumWordForwardsLoop(e, hasSeenAlnum) ==
    IF ~(e.cursor < Len(e.buffer)) THEN e
    ELSE IF ~isAlphaNumeric(At(e.buffer, e.cursor)) /\ hasSeenAlnum THEN e
    ELSE eraseAlnumWordForwardsLoop(
             eraseCharacterForwards(e),
             hasSeenAlnum \/ isAlphaNumeric(At(e.buffer, e.cursor)))

eraseAlnumWordForwards(e) == eraseAlnumWordForwardsLoop(e, FALSE)

RECURSIVE eraseWordBackwardsLoop(_, _)
eraseWordBackwardsLoop(e, hasSeenNonSpace) ==
    IF ~(e.cursor > 0) THEN e
    ELSE IF isSpace(At(e.buffer, e.cursor - 1)) /\ hasSeenNonSpace THEN e
    ELSE eraseWordBackwardsLoop(
             eraseCharacterBackwards(e),
             hasSeenNonSpace \/ ~isSpace(At(e.buffer, e.cursor - 1)))

eraseWordBackwards(e) == eraseWordBackwardsLoop(e, FALSE)

RECURSIVE eraseToEnd(_)
eraseToEnd(e) ==
    IF e.cursor < Len(e.buffer) THEN eraseToEnd(eraseCharacterForwards(e))
    ELSE e

transposeCharacters(e) ==
    IF e.cursor > 0 /\ Len(e.buffer) >= 2
    THEN LET c == IF e.cursor < Len(e.buffer) THEN e.cursor + 1 ELSE e.cursor
             t == At(e.buffer, c - 1) IN
         [e EXCEPT !.cursor = c,
                   !.buffer = [@ EXCEPT ![c] = At(e.buffer, c - 2),
                                        ![c - 1] = t],
                   !.refreshNeeded = TRUE,
                   !.charsTouchedInTheMiddle = @ + 2]
    ELSE e

RECURSIVE caseChangeSkip(_)
caseChangeSkip(e) ==
    IF e.cursor < Len(e.buffer) /\ ~isAlphaNumeric(At(e.buffer, e.cursor))
    THEN caseChangeSkip([e EXCEPT !.cursor = @ + 1])
    ELSE e

RECURSIVE caseChangeRun(_, _, _)
caseChangeRun(e, op, start) ==
    IF e.cursor < Len(e.buffer) /\ isAlphaNumeric(At(e.buffer, e.cursor))
    THEN caseChangeRun(
             [e EXCEPT !.buffer[e.cursor + 1] =
                           IF op = "Upper" \/ (op = "Capital" /\ e.cursor = start)
                           THEN ToUpper(@) ELSE ToLower(@),
                       !.cursor = @ + 1,
                       !.refreshNeeded = TRUE],
             op, start)
    ELSE e

caseChangeWord(e, op) ==
    LET s == caseChangeSkip(e) IN caseChangeRun(s, op, s.cursor)

capitalizeWord(e) == caseChangeWord(e, "Capital")
lowercaseWord(e) == caseChangeWord(e, "Lower")
uppercaseWord(e) == caseChangeWord(e, "Upper")

RECURSIVE killLineLoop(_, _)
killLineLoop(e, i) ==
    IF i < e.cursor THEN killLineLoop(removeAtIndex(e, 0), i + 1) ELSE e

killLine(e) ==
    [killLineLoop(e, 0) EXCEPT !.cursor = 0,
                               !.inlineSearchCursor = 0,
                               !.refreshNeeded = TRUE]

---------------------------------------------------------------------------
(* The terminal: the cells of the row the prompt is on and the column of   *)
(* the terminal's cursor (1-based).  The model keeps prompt and buffer on  *)
(* one row: no newline in the buffer, the row shorter than numColumns, the  *)
(* origin row inside the screen.  Blank cells at the end of the row are     *)
(* not kept.                                                                *)

Blank == 32

RECURSIVE StripBlanks(_)
StripBlanks(s) ==
    IF s # <<>> /\ s[Len(s)] = Blank THEN StripBlanks(Take(s, Len(s) - 1))
    ELSE s

RECURSIVE Blanks(_)
Blanks(n) == IF n <= 0 THEN <<>> ELSE <<Blank>> \o Blanks(n - 1)

\* the terminal prints text at its cursor, over what is there
TtyWrite(t, text) ==
    LET padded == t.cells \o Blanks(t.col - 1 - Len(t.cells)) IN
    [cells |-> StripBlanks(Take(padded, t.col - 1) \o text
                           \o Drop(padded, t.col - 1 + Len(text))),
     col   |-> t.col + Len(text)]

\* vtMoveAbsolute on the prompt's row: "\x1b[row;colH"
vtMoveAbsolute(t, col) == [t EXCEPT !.col = IF col = 0 THEN 1 ELSE col]

\* vtClearToEndOfLine: "\x1b[K"
vtClearToEndOfLine(t) ==
    [t EXCEPT !.cells = StripBlanks(Take(t.cells, Min(t.col - 1, Len(t.cells))))]

\* vtClearLines(1, 0): one "\x1b[2K"
vtClearLines(t) == [t EXCEPT !.cells = <<>>]

\* printSingleCharacter of refreshDisplay: what one code point of the buffer
\* puts on the terminal
printSingleCharacter(c) ==
    LET shouldPrintMasked == c = 127 \/ (c < 32 /\ c # 10)
        shouldPrintCaret  == c < 64 /\ shouldPrintMasked IN
    IF shouldPrintCaret THEN <<94, c + 64>>
    ELSE IF shouldPrintMasked THEN <<92, 120, 55, 102>>
    ELSE <<c>>

\* printCharacterAt for each index of a slice of the buffer, without masks
RECURSIVE printCharacters(_)
printCharacters(cs) ==
    IF cs = <<>> THEN <<>>
    ELSE printSingleCharacter(Head(cs)) \o printCharacters(Tail(cs))

\* actualRenderedStringMetricsImpl and TotalLength(-1) of its one line, for
\* a string without ESC, CR or LF and without masks.  A control character
\* adds its masked length to Length and is also listed in MaskedChars, and
\* TotalLength takes the original length 1 off and adds the masked length
\* again.
RECURSIVE actualRenderedStringMetricsImpl(_)
actualRenderedStringMetricsImpl(line) ==
    IF line = <<>> THEN 0
    ELSE LET c == Head(line)
             maskedLength == IF c > 64 THEN 4 ELSE 2 IN
         (IF c = 127 \/ c < 32 THEN maskedLength - 1 + maskedLength ELSE 1)
             + actualRenderedStringMetricsImpl(Tail(line))

\* offsetInLine: the prompt's last line and the buffer up to the drawn
\* cursor, modulo the width; the row never fills
offsetInLine(e) ==
    LET cursor == Min(e.drawnCursor, e.cursor) IN
    (Len(e.newPrompt) + actualRenderedStringMetricsImpl(Take(e.buffer, cursor)))
        % e.numColumns

\* lineEditor.repositionCursor; offsetInLine slices l.buffer[:cursor], which
\* panics for a cursor beyond an emptied buffer (see InsertChar)
repositionCursor(e, toEnd) ==
    LET cursor == IF toEnd THEN Len(e.buffer) ELSE e.cursor
        m == [e EXCEPT !.cursor = cursor, !.drawnCursor = cursor] IN
    IF Ult(Len(e.buffer), cursor) THEN [e EXCEPT !.blockedOn = "panic"]
    ELSE
    [m EXCEPT !.tty = vtMoveAbsolute(@, offsetInLine(m) + e.originColumn),
              !.cursor = e.cursor]

\* lineEditor.cleanup on one row: shown and new lines are both 1
cleanup(e) ==
    LET a == repositionCursor(e, TRUE)
        b == [a EXCEPT !.tty = vtClearLines(@), !.extraForwardLines = 0] IN
    repositionCursor(b, FALSE)

\* lineEditor.Reset
Reset(e) ==
    [e EXCEPT !.cachedPromptValid = FALSE,
              !.cursor = 0,
              !.drawnCursor = 0,
              !.inlineSearchCursor = 0,
              !.searchOffset = 0,
              !.originRow = 0,
              !.originColumn = 0,
              !.refreshNeeded = TRUE,
              !.inputError = "nil",
              !.returnedLine = <<>>,
              !.charsTouchedInTheMiddle = 0,
              !.drawnEndOfLineOffset = 0,
              !.drawnSpans = [shared |-> FALSE,
                              spans |-> [spansStarting |-> <<>>,
                                         spansEnding |-> <<>>]],
              !.searchOffsetState = "Unbiased",
              !.promptLinesAtSuggestionInitiation = 0,
              !.pasteBuffer = <<>>]

\* the value of l.drawnSpans: the assignment l.drawnSpans = l.currentSpans
\* copies two map references, so that while currentSpans keeps those maps a
\* Stylize writes to both
DrawnSpans(e) ==
    IF e.drawnSpans.shared THEN e.currentSpans ELSE e.drawnSpans.spans

\* l.drawnSpans = l.currentSpans; nil maps are shared with nobody
AssignDrawnSpans(e) ==
    [shared |-> e.currentSpans.spansStarting # <<>>
                    \/ e.currentSpans.spansEnding # <<>>,
     spans |-> [spansStarting |-> <<>>, spansEnding |-> <<>>]]

\* spans.containsUpToOffset
containsUpToOffset(s, other, offset) ==
    \A entryKey \in DOMAIN other.spansStarting :
        \/ entryKey > offset + 1
        \/ /\ entryKey \in DOMAIN s.spansStarting
           /\ \A leftEntryKey \in DOMAIN s.spansStarting[entryKey] :
                  LET entryValue == other.spansStarting[entryKey]
                      leftEntryValue == s.spansStarting[entryKey][leftEntryKey]
                  IN IF leftEntryKey \in DOMAIN entryValue
                     THEN entryValue[leftEntryKey] = leftEntryValue
                     ELSE \E k \in DOMAIN entryValue :
                              /\ k > leftEntryKey
                              /\ k > offset
                              /\ leftEntryValue = entryValue[k]

\* the branch refreshDisplay takes: the cursor move, the write of the
\* pending characters, the incremental tail redraw or the full reflow
refreshPath(e) ==
    IF e.cachedPromptValid /\ ~e.refreshNeeded /\ e.pendingChars = <<>>
    THEN "move"
    ELSE IF e.cachedPromptValid /\ ~e.refreshNeeded
            /\ e.cursor = Len(e.buffer)
    THEN "write"
    ELSE IF ~e.alwaysRefresh /\ e.cachedPromptValid
            /\ e.charsTouchedInTheMiddle = 0
            /\ containsUpToOffset(DrawnSpans(e), e.currentSpans, e.drawnCursor)
    THEN "tail"
    ELSE "reflow"

\* lineEditor.refreshDisplay, no resize pending, no onRefresh hook; the
\* escape sequences of the styles are not written
refreshDisplay(editor) ==
    Then(editor, LAMBDA e :
    Then(refreshPath(e), LAMBDA path :
    IF path = "move"
    THEN \* probably just moving around
         [repositionCursor(e, FALSE) EXCEPT
              !.drawnEndOfLineOffset = Len(e.buffer)]
    ELSE IF path = "write"
    THEN \* just write the characters out
         [e EXCEPT !.tty = TtyWrite(@, DecodeRunes(e.pendingChars)),
                   !.pendingChars = <<>>,
                   !.drawnCursor = e.cursor,
                   !.drawnEndOfLineOffset = Len(e.buffer),
                   !.drawnSpans = AssignDrawnSpans(e)]
    ELSE IF path = "tail"
    THEN \* the tail from drawnEndOfLineOffset on; the cursor is not moved
         [e EXCEPT !.tty = TtyWrite(@, printCharacters(
                               Drop(e.buffer, e.drawnEndOfLineOffset))),
                   !.pendingChars = <<>>,
                   !.refreshNeeded = FALSE,
                   !.charsTouchedInTheMiddle = 0,
                   !.drawnCursor = e.cursor,
                   !.drawnEndOfLineOffset = Len(e.buffer)]
    ELSE \* reflow the entire line
         Then(cleanup(e), LAMBDA c :
         LET t1 == vtMoveAbsolute(c.tty, c.originColumn)
             t2 == vtClearToEndOfLine(TtyWrite(t1, c.newPrompt))
             t3 == TtyWrite(t2, printCharacters(c.buffer)) IN
         repositionCursor(
             [c EXCEPT !.tty = t3,
                       !.pendingChars = <<>>,
                       !.refreshNeeded = FALSE,
                       !.charsTouchedInTheMiddle = 0,
                       !.drawnSpans = AssignDrawnSpans(c),
                       !.drawnEndOfLineOffset = Len(c.buffer),
                       !.cachedPromptValid = TRUE],
             FALSE))))

---------------------------------------------------------------------------
(* Styles, spans and masks, editor.go and impl.go.  A Style of the model    *)
(* has the fields IsEmpty reads and the Mask Stylize takes off it; a Color  *)
(* is its HasValue.                                                         *)

\* the zero Style
EmptyStyle ==
    [ForegroundColor |-> [HasValue |-> FALSE],
     BackgroundColor |-> [HasValue |-> FALSE],
     Bold |-> FALSE,
     Italic |-> FALSE,
     Underline |-> FALSE,
     Hyperlink |-> <<>>,
     Mask |-> "nil"]

\* Style.IsEmpty
IsEmpty(s) ==
    /\ ~s.ForegroundColor.HasValue
    /\ ~s.BackgroundColor.HasValue
    /\ ~s.Bold
    /\ ~s.Italic
    /\ ~s.Underline
    /\ Len(s.Hyperlink) = 0

\* Span
Span(start, end, mode) == [Start |-> start, End |-> end, Mode |-> mode]

\* m[k] = v on a map
MapPut(m, k, v) == [x \in DOMAIN m \cup {k} |-> IF x = k THEN v ELSE m[x]]
\* v, ok := m[k], with the empty map for the zero value
MapGet(m, k) == IF k \in DOMAIN m THEN m[k] ELSE <<>>

\* lineEditor.byteOffsetRangeToCodePointOffsetRange, scanning forwards from
\* code point scanCodePointOffset: <<start, end>>
RECURSIVE byteOffsetRangeScan(_, _, _, _, _, _, _)
byteOffsetRangeScan(buffer, startByteOffset, endByteOffset, byteOffset, codePointOffset, start, end) ==
    IF codePointOffset >= Len(buffer) \/ byteOffset >= endByteOffset
    THEN <<start, end>>
    ELSE byteOffsetRangeScan(
             buffer, startByteOffset, endByteOffset,
             byteOffset + RuneLen(At(buffer, codePointOffset)),
             codePointOffset + 1,
             IF byteOffset < startByteOffset THEN start + 1 ELSE start,
             end + 1)

byteOffsetRangeToCodePointOffsetRange(e, startByteOffset, endByteOffset, scanCodePointOffset) ==
    byteOffsetRangeScan(e.buffer, startByteOffset, endByteOffset,
                        0, scanCodePointOffset, 0, 0)

\* the entries with start <= start at the head of currentMasks are deleted,
\* the last of them first: <<the masks left, the last mask met>>
RECURSIVE deleteOverlappingMasks(_, _, _)
deleteOverlappingMasks(masks, start, lastEncounteredEntry) ==
    LET run == {n \in 1..Len(masks) : \A j \in 1..n : masks[j].start <= start} IN
    IF run = {} THEN <<masks, lastEncounteredEntry>>
    ELSE LET nextI == CHOOSE n \in run : \A o \in run : o <= n IN
         deleteOverlappingMasks(
             RemoveIndex(masks, nextI - 1), start,
             IF masks[nextI].mask # "nil" THEN masks[nextI].mask
             ELSE lastEncounteredEntry)

\* sort.Sort by start: an insertion sort on a slice this short
RECURSIVE sortMasks(_)
sortMasks(masks) ==
    IF masks = <<>> THEN <<>>
    ELSE LET n == Len(masks)
             sorted == sortMasks(Take(masks, n - 1))
             x == masks[n]
             k == Cardinality({j \in 1..(n - 1) : sorted[j].start <= x.start}) IN
         InsertIndex(sorted, k, x)

\* the part of Stylize that enters the mask of the style in currentMasks
stylizeMask(masks, start, end, mask) ==
    LET overlap == masks # <<>> /\ masks[Len(masks)].start >= start
        d == IF overlap THEN deleteOverlappingMasks(masks, start, "nil")
             ELSE <<masks, "nil">>
        added == d[1] \o <<[start |-> start, mask |-> mask],
                           [start |-> end, mask |-> "nil"]>>
                      \o (IF d[2] # "nil"
                          THEN <<[start |-> end + 1, mask |-> d[2]]>>
                          ELSE <<>>) IN
    sortMasks(added)

\* a Stylize that enters the style in spansStarting alone
StylizeStartsOnly(e, span, style) ==
    IF IsEmpty(style) \/ span.Start = span.End THEN e
    ELSE [e EXCEPT !.currentSpans.spansStarting =
                       MapPut(@, span.Start,
                              MapPut(MapGet(@, span.Start), span.End,
                                     [style EXCEPT !.Mask = "nil"]))]

\* lineEditor.Stylize
Stylize(e, span, style) ==
    IF IsEmpty(style) \/ span.Start = span.End THEN e
    ELSE LET r == IF span.Mode = "Byte"
                  THEN byteOffsetRangeToCodePointOffsetRange(
                           e, span.Start, span.End, 0)
                  ELSE <<span.Start, span.End>>
             start == r[1]
             end == r[2]
             stored == [style EXCEPT !.Mask = "nil"]
             startingMap == MapGet(e.currentSpans.spansStarting, start)
             endingMap == MapGet(e.currentSpans.spansEnding, end) IN
         [e EXCEPT
            !.currentMasks = IF style.Mask # "nil"
                             THEN stylizeMask(@, start, end, style.Mask)
                             ELSE @,
            !.refreshNeeded = \/ @
                              \/ end \notin DOMAIN startingMap
                              \/ start \notin DOMAIN endingMap,
            !.currentSpans =
                [spansStarting |-> MapPut(@.spansStarting, start,
                                          MapPut(startingMap, end, stored)),
                 spansEnding |-> MapPut(@.spansEnding, end,
                                        MapPut(endingMap, start, stored))]]

\* lineEditor.StripStyles; the maps drawnSpans shared stay with drawnSpans
StripStyles(e) ==
    [e EXCEPT !.currentSpans = [spansStarting |-> <<>>, spansEnding |-> <<>>],
              !.drawnSpans = [shared |-> FALSE, spans |-> DrawnSpans(e)],
              !.currentMasks = <<>>,
              !.refreshNeeded = TRUE]

---------------------------------------------------------------------------
(* History search, impl.go and internal_functions.go.  A history entry is   *)
(* its string, a sequence of bytes.                                         *)


\* strings.HasPrefix and strings.Contains
HasPrefix(s, prefix) ==
    Len(prefix) <= Len(s) /\ Take(s, Len(prefix)) = prefix
Contains(s, substr) ==
    \E i \in 0..(Len(s) - Len(substr)) : SubSeq(s, i + 1, i + Len(substr)) = substr

\* lineEditor.AddToHistory
AddToHistory(e, line) == [e EXCEPT !.history = Append(@, line)]

\* a scan that takes the most recent match whatever the offset
searchScanFirst(e, phrase, fromBeginning, i, searchOffset) ==
    LET m == {j \in 1..i :
                 IF fromBeginning THEN HasPrefix(e.history[j], phrase)
                 ELSE Contains(e.history[j], phrase)} IN
    IF m = {} THEN <<FALSE, -1>>
    ELSE <<TRUE, (CHOOSE j \in m : \A k \in m : k <= j) - 1>>

\* the loop of search from entry i down: <<found, lastMatchingOffset>>
RECURSIVE searchScan(_, _, _, _, _)
searchScan(e, phrase, fromBeginning, i, searchOffset) ==
    IF i = 0 THEN <<FALSE, -1>>
    ELSE LET entry == At(e.history, i - 1)
             contains == IF fromBeginning THEN HasPrefix(entry, phrase)
                         ELSE Contains(entry, phrase) IN
         IF contains /\ searchOffset = 0 THEN <<TRUE, i - 1>>
         ELSE searchScan(e, phrase, fromBeginning, i - 1,
                         IF contains THEN searchOffset - 1 ELSE searchOffset)

\* lineEditor.search: <<the editor it leaves, found>>
search(e, phrase, allowEmpty, fromBeginning) ==
    IF ~(allowEmpty \/ Len(phrase) > 0) THEN <<e, FALSE>>
    ELSE LET s == searchScan(e, phrase, fromBeginning,
                             e.historyCursor, e.searchOffset) IN
         IF ~s[1] THEN <<[e EXCEPT !.bell = TRUE], FALSE>>
         ELSE <<[InsertString([e EXCEPT
                                  !.charsTouchedInTheMiddle = Len(e.buffer),
                                  !.buffer = <<>>,
                                  !.cursor = 0],
                              DecodeRunes(At(e.history, s[2])))
                    EXCEPT !.refreshNeeded = TRUE],
                 TRUE>>

\* lineEditor.endSearch
endSearch(e) ==
    LET a == [e EXCEPT !.isSearching = FALSE,
                       !.refreshNeeded = TRUE,
                       !.searchOffset = 0] IN
    [(IF a.resetBufferOnSearchEnd
      THEN [a EXCEPT !.buffer = a.preSearchBuffer,
                     !.cursor = a.preSearchCursor]
      ELSE a) EXCEPT !.resetBufferOnSearchEnd = TRUE,
                     !.searchEditor = <<>>]

\* searchForwards; editor.buffer[:editor.inlineSearchCursor] panics beyond
\* the buffer
searchForwards(e) ==
    IF e.inlineSearchCursor > Len(e.buffer) THEN [e EXCEPT !.blockedOn = "panic"]
    ELSE
    LET original == e.inlineSearchCursor
        searchPhrase == EncodeRunes(Take(e.buffer, e.inlineSearchCursor))
        a == IF e.searchOffsetState = "Backwards"
             THEN [e EXCEPT !.searchOffset = U32(@ - 1)] ELSE e
        r == search([a EXCEPT !.searchOffset = U32(@ - 1)],
                    searchPhrase, TRUE, TRUE)
        b == IF a.searchOffset # 0
             THEN IF r[2]
                  THEN [r[1] EXCEPT !.searchOffsetState = "Forwards"]
                  ELSE [r[1] EXCEPT !.searchOffsetState = "Unbiased",
                                    !.searchOffset = a.searchOffset]
             ELSE [InsertString([a EXCEPT
                                    !.searchOffsetState = "Unbiased",
                                    !.charsTouchedInTheMiddle = Len(a.buffer),
                                    !.cursor = 0,
                                    !.buffer = <<>>],
                                DecodeRunes(searchPhrase))
                      EXCEPT !.refreshNeeded = TRUE] IN
    [b EXCEPT !.inlineSearchCursor = original]

\* searchBackwards
searchBackwards(e) ==
    IF e.inlineSearchCursor > Len(e.buffer) THEN [e EXCEPT !.blockedOn = "panic"]
    ELSE
    LET original == e.inlineSearchCursor
        searchPhrase == EncodeRunes(Take(e.buffer, e.inlineSearchCursor))
        a == IF e.searchOffsetState = "Forwards"
             THEN [e EXCEPT !.searchOffset = U32(@ + 1)] ELSE e
        r == search(a, searchPhrase, TRUE, TRUE)
        b == IF r[2]
             THEN [r[1] EXCEPT !.searchOffsetState = "Backwards",
                               !.searchOffset = U32(@ + 1)]
             ELSE [r[1] EXCEPT !.searchOffsetState = "Unbiased",
                               !.searchOffset = U32(@ - 1)] IN
    [b EXCEPT !.inlineSearchCursor = original]

---------------------------------------------------------------------------
(* Suggestions, src/unnamed/part_000.  A Completion carries its Text as a   *)
(* string of bytes and the views setSuggestions makes of it; textCap is the *)
(* capacity of textView, which the runtime may make larger than its length. *)
(* The pager is kept as what it leaves behind: isShowingSuggestions,        *)
(* linesUsedForLastSuggestion and the pages; what it writes is not drawn on *)
(* the row of the model, and the lists of the model fit one page.           *)

\* Completion{}
EmptyCompletion ==
    [Text |-> <<>>,
     TrailingTrivia |-> <<>>,
     DisplayTrivia |-> <<>>,
     Style |-> EmptyStyle,
     StartIndex |-> 0,
     StaticOffset |-> 0,
     InvariantOffset |-> 0,
     AllowCommitWithoutListing |-> FALSE,
     textView |-> <<>>,
     textCap |-> 0,
     trailingTriviaView |-> <<>>,
     displayTriviaView |-> <<>>]

\* newSuggestionManager
newSuggestionManager ==
    [suggestions |-> <<>>,
     lastShownSuggestion |-> EmptyCompletion,
     lastShownSuggestionDisplayLength |-> 0,
     lastShownSuggestionWasComplete |-> FALSE,
     nextSuggestionIndex |-> 0,
     largestCommonSuggestionPrefixLength |-> 0,
     lastDisplayedSuggestionIndex |-> 0,
     lastSelectedSuggestionIndex |-> 0]

\* newSuggestionDisplay
newSuggestionDisplay ==
    [isShowingSuggestions |-> FALSE,
     linesUsedForLastSuggestion |-> 0,
     promptLinesAtSuggestionInitiation |-> 0,
     pages |-> <<>>]

\* a slice from the start of the view whatever low is
SliceViewFromStart(view, cap, low, high) ==
    IF low > high \/ high > cap THEN <<(<<>>), TRUE>>
    ELSE <<[i \in 1..high |-> IF i <= Len(view) THEN view[i] ELSE 0], FALSE>>

\* view[low:high] of a slice of length Len(view) and capacity cap, whose
\* spare elements the runtime zeroed: <<the slice, panicked>>
SliceView(view, cap, low, high) ==
    IF low > high \/ high > cap THEN <<(<<>>), TRUE>>
    ELSE <<[i \in 1..(high - low) |->
               IF low + i <= Len(view) THEN view[low + i] ELSE 0], FALSE>>

\* the code points the texts have in common at their head, for two or more
commonSuggestionPrefix(suggestions) ==
    LET first == suggestions[1].textView
        ok(n) == \A i \in DOMAIN suggestions :
                     /\ Len(suggestions[i].textView) >= n
                     /\ Take(suggestions[i].textView, n) = Take(first, n)
        ns == {n \in 0..Len(first) : ok(n)} IN
    CHOOSE n \in ns : \A o \in ns : o <= n

\* suggestionManagerImpl.setSuggestions; spare is the capacity a []rune
\* conversion gets beyond its length
setSuggestions(m, suggestions, spare) ==
    LET views == [i \in DOMAIN suggestions |->
                    [suggestions[i] EXCEPT
                        !.textView = DecodeRunes(suggestions[i].Text),
                        !.textCap = Len(DecodeRunes(suggestions[i].Text)) + spare,
                        !.trailingTriviaView =
                            DecodeRunes(suggestions[i].TrailingTrivia),
                        !.displayTriviaView =
                            DecodeRunes(suggestions[i].DisplayTrivia)]] IN
    [m EXCEPT !.suggestions = views,
              !.largestCommonSuggestionPrefixLength =
                  IF Len(views) = 1 THEN Len(views[1].Text)
                  ELSE IF Len(views) > 1 THEN commonSuggestionPrefix(views)
                  ELSE 0]

\* suggestionManagerImpl.setCurrentSuggestionInitiationIndex
setCurrentSuggestionInitiationIndex(m, index) ==
    LET suggestion == At(m.suggestions, m.nextSuggestionIndex) IN
    [m EXCEPT !.lastShownSuggestion.StartIndex =
                  IF m.lastShownSuggestionDisplayLength > 0
                  THEN U32(index - suggestion.StaticOffset
                           - m.lastShownSuggestionDisplayLength)
                  ELSE U32(index - suggestion.StaticOffset
                           - suggestion.InvariantOffset),
              !.lastShownSuggestionDisplayLength =
                  Len(m.lastShownSuggestion.textView),
              !.lastShownSuggestionWasComplete = FALSE]

\* suggestionManagerImpl.count
count(m) == Len(m.suggestions)

\* suggestionManagerImpl.setStartIndex
setStartIndex(m, u) == [m EXCEPT !.lastDisplayedSuggestionIndex = u]

\* suggestionManagerImpl.next
next(m) ==
    [m EXCEPT !.nextSuggestionIndex =
                  IF Len(m.suggestions) > 0
                  THEN UMod(U32(@ + 1), Len(m.suggestions)) ELSE 0]

\* suggestionManagerImpl.previous
previous(m) ==
    [m EXCEPT !.nextSuggestionIndex =
                  U32((IF @ = 0 THEN Len(m.suggestions) ELSE @) - 1)]

\* suggestionManagerImpl.suggest; nextSuggestionIndex is within the list
suggest(m) ==
    [m EXCEPT !.lastShownSuggestion = At(m.suggestions, m.nextSuggestionIndex),
              !.lastSelectedSuggestionIndex = m.nextSuggestionIndex]

\* suggestionManagerImpl.currentSuggestion
currentSuggestion(m) == m.lastShownSuggestion

\* suggestionManagerImpl.reset
reset(m) ==
    [m EXCEPT !.lastShownSuggestion = EmptyCompletion,
              !.lastShownSuggestionDisplayLength = 0,
              !.suggestions = <<>>,
              !.lastDisplayedSuggestionIndex = 0,
              !.nextSuggestionIndex = 0]

\* completionAttemptResult{newCompletionMode: mode}; panicked is set when
\* a slice expression of attemptCompletion is out of range
newCompletionAttemptResult(mode) ==
    [newCompletionMode |-> mode,
     newCursorOffset |-> 0,
     offsetStartToRemove |-> 0,
     offsetEndToRemove |-> 0,
     staticOffsetFromCursor |-> 0,
     insert |-> <<>>,
     styleToApply |-> EmptyStyle,
     hasStyleToApply |-> FALSE,
     avoidCommittingToSingleSuggestion |-> FALSE,
     panicked |-> FALSE]

\* suggestionManagerImpl.attemptCompletion:
\* <<the manager it leaves, the result>>
attemptCompletion(s, mode, initiationStartIndex) ==
    IF ~Ult(s.nextSuggestionIndex, Len(s.suggestions))
    THEN <<[s EXCEPT !.nextSuggestionIndex = 0],
           newCompletionAttemptResult(mode)>>
    ELSE
    LET nextSuggestion == At(s.suggestions, s.nextSuggestionIndex)
        largest == s.largestCommonSuggestionPrefixLength IN
    IF mode = "CompletePrefix" /\ ~nextSuggestion.AllowCommitWithoutListing
    THEN <<[s EXCEPT !.lastShownSuggestionDisplayLength = 0,
                     !.lastShownSuggestionWasComplete = FALSE,
                     !.lastShownSuggestion = EmptyCompletion],
           [newCompletionAttemptResult("ShowSuggestions") EXCEPT
               !.avoidCommittingToSingleSuggestion = TRUE]>>
    ELSE
    LET canComplete == nextSuggestion.InvariantOffset <= largest
        actualOffset ==
            IF mode = "CompletePrefix" THEN 0
            ELSE IF mode = "ShowSuggestions"
            THEN nextSuggestion.InvariantOffset - largest
            ELSE IF s.lastShownSuggestionDisplayLength = 0 THEN 0
            ELSE nextSuggestion.InvariantOffset
                     - s.lastShownSuggestionDisplayLength
        shownLength ==
            IF /\ mode = "ShowSuggestions" /\ canComplete
               /\ nextSuggestion.AllowCommitWithoutListing
            THEN U32(largest + Len(s.lastShownSuggestion.trailingTriviaView))
            ELSE s.lastShownSuggestionDisplayLength
        t == setCurrentSuggestionInitiationIndex(suggest(s),
                                                 initiationStartIndex)
        suggestion == t.lastShownSuggestion
        result == [newCompletionAttemptResult(mode) EXCEPT
                      !.offsetStartToRemove = nextSuggestion.InvariantOffset,
                      !.offsetEndToRemove = U32(shownLength),
                      !.newCursorOffset = U32(actualOffset),
                      !.staticOffsetFromCursor = nextSuggestion.StaticOffset]
        prefix == SliceView(suggestion.textView, suggestion.textCap,
                            suggestion.InvariantOffset, largest)
        rest == SliceView(suggestion.textView, suggestion.textCap,
                          suggestion.InvariantOffset, Len(suggestion.textView)) IN
    IF mode = "CompletePrefix"
    THEN IF canComplete /\ prefix[2]
         THEN <<t, [result EXCEPT !.panicked = TRUE]>>
         ELSE IF canComplete /\ Len(s.suggestions) = 1
         THEN <<[t EXCEPT !.lastShownSuggestionDisplayLength = 0,
                          !.lastShownSuggestionWasComplete = TRUE],
                [result EXCEPT
                    !.insert = prefix[1] \o suggestion.trailingTriviaView,
                    !.newCompletionMode = "DontComplete",
                    !.styleToApply = suggestion.Style,
                    !.hasStyleToApply = ~IsEmpty(suggestion.Style)]>>
         ELSE <<[t EXCEPT !.lastShownSuggestionDisplayLength =
                              IF canComplete THEN largest ELSE 0,
                          !.lastShownSuggestionWasComplete = FALSE,
                          !.lastShownSuggestion = EmptyCompletion],
                [result EXCEPT
                    !.insert = IF canComplete THEN prefix[1] ELSE <<>>,
                    !.newCompletionMode = "ShowSuggestions"]>>
    ELSE IF rest[2] THEN <<t, [result EXCEPT !.panicked = TRUE]>>
    ELSE <<[t EXCEPT !.lastShownSuggestionDisplayLength =
                         U32(@ + Len(suggestion.trailingTriviaView))],
           [result EXCEPT
               !.insert = rest[1] \o suggestion.trailingTriviaView]>>

\* suggestionDisplayImpl.cleanup: <<the display it leaves, what it returns>>
displayCleanup(d) ==
    <<[d EXCEPT !.isShowingSuggestions = FALSE,
                !.linesUsedForLastSuggestion = 0],
      d.linesUsedForLastSuggestion # 0>>

\* suggestionDisplayImpl.display on a list that fits one line of one page
display(e) ==
    [e EXCEPT !.suggestionDisplay.isShowingSuggestions = TRUE,
              !.suggestionDisplay.pages =
                  IF @ = <<>>
                  THEN <<[start |-> 0, end |-> count(e.suggestionManager)]>>
                  ELSE @,
              !.suggestionDisplay.linesUsedForLastSuggestion = 1,
              !.suggestionManager = setStartIndex(@, 0)]

\* suggestionDisplayImpl.finish
displayFinish(d) == [d EXCEPT !.pages = <<>>]

\* lineEditor.NumLines: the prompt and the buffer of the model take one line
NumLines(e) == 1

\* lineEditor.cleanupSuggestions
cleanupSuggestions(e) ==
    IF e.timesTabPressed = 0 THEN e
    ELSE
    Then(currentSuggestion(e.suggestionManager),
         LAMBDA cur :
    Then(Stylize(e, Span(cur.StartIndex, e.cursor, "Rune"), cur.Style),
         LAMBDA a :
    Then(displayCleanup(a.suggestionDisplay),
         LAMBDA c :
    Then(IF c[2]
         THEN [repositionCursor(a, FALSE) EXCEPT !.refreshNeeded = TRUE]
         ELSE a,
         LAMBDA b :
             [b EXCEPT !.suggestionManager = reset(@),
                       !.suggestionDisplay = displayFinish(c[1]),
                       !.timesTabPressed = 0]))))

\* removeAtIndex(index) n times, for as long as the editor runs
RECURSIVE removeTimes(_, _, _)
removeTimes(e, index, n) ==
    IF n <= 0 \/ e.blockedOn # "none" THEN e
    ELSE removeTimes(removeAtIndex(e, index), index, n - 1)

\* the loop that moves staticOffsetFromCursor code points at newCursor from
\* the buffer into rememberedSuggestionStaticData
RECURSIVE rememberStatic(_, _, _)
rememberStatic(e, newCursor, n) ==
    IF n <= 0 \/ e.blockedOn # "none" THEN e
    ELSE IF ~Ult(newCursor, Len(e.buffer)) THEN [e EXCEPT !.blockedOn = "panic"]
    ELSE rememberStatic(
             removeAtIndex(
                 [e EXCEPT !.rememberedSuggestionStaticData =
                               Append(@, At(e.buffer, newCursor))],
                 newCursor),
             newCursor, n - 1)

\* the tab handling of handleReadEvent from the completion result on
applyCompletion(e, completionResult) ==
    LET newCursor == U32(e.cursor + completionResult.newCursorOffset)
        staticCursor == U32(newCursor - completionResult.staticOffsetFromCursor) IN
    ThenRun(removeTimes(e, newCursor,
                        completionResult.offsetEndToRemove
                            - completionResult.offsetStartToRemove),
            LAMBDA a :
    ThenRun(rememberStatic(a, staticCursor,
                           completionResult.staticOffsetFromCursor),
            LAMBDA b :
    ThenRun(InsertString([b EXCEPT !.cursor = staticCursor,
                                   !.inlineSearchCursor = staticCursor,
                                   !.refreshNeeded = TRUE,
                                   !.charsTouchedInTheMiddle = @ + 1],
                         completionResult.insert),
            LAMBDA c :
    ThenRun(repositionCursor(c, FALSE),
            LAMBDA d :
    ThenRun(IF completionResult.hasStyleToApply
            THEN Stylize(d, Span(currentSuggestion(d.suggestionManager).StartIndex,
                                 d.cursor, "Rune"),
                         completionResult.styleToApply)
            ELSE d,
            LAMBDA f :
    ThenRun(IF completionResult.newCompletionMode = "DontComplete"
            THEN [f EXCEPT !.timesTabPressed = 0,
                           !.rememberedSuggestionStaticData = <<>>]
            ELSE IF completionResult.newCompletionMode = "CompletePrefix"
            THEN f
            ELSE [f EXCEPT !.timesTabPressed = @ + 1],
            LAMBDA g :
    ThenRun(IF g.timesTabPressed > 1 /\ count(g.suggestionManager) > 0
            THEN LET c2 == displayCleanup(g.suggestionDisplay)
                     h == [(IF c2[2] THEN repositionCursor(g, FALSE) ELSE g)
                              EXCEPT !.suggestionDisplay =
                                  [c2[1] EXCEPT
                                      !.promptLinesAtSuggestionInitiation =
                                          g.promptLinesAtSuggestionInitiation]] IN
                 display(h)
            ELSE g,
            LAMBDA h :
    ThenRun(IF h.timesTabPressed > 2
            THEN [h EXCEPT !.suggestionManager =
                               IF h.tabDirection = "Forward"
                               THEN next(@) ELSE previous(@)]
            ELSE h,
            LAMBDA i :
                IF /\ count(i.suggestionManager) < 2
                   /\ ~completionResult.avoidCommittingToSingleSuggestion
                THEN [cleanupSuggestions(repositionCursor(i, TRUE)) EXCEPT
                         !.rememberedSuggestionStaticData = <<>>]
                ELSE i))))))))

\* a mode switch without the cycle case
tabCompletionModeNoCycle(timesTabPressed) ==
    IF timesTabPressed = 1 THEN "CompletePrefix" ELSE "ShowSuggestions"

\* the completion mode of a tab, by the value of timesTabPressed
tabCompletionMode(timesTabPressed) ==
    IF timesTabPressed = 1 THEN "CompletePrefix"
    ELSE IF timesTabPressed = 2 THEN "ShowSuggestions"
    ELSE "CycleSuggestions"

\* the tab handling of handleReadEvent, codePoint = '\t' || reverseTab
handleTab(e) ==
    IF e.tabCompletionHandler = <<>> THEN e
    ELSE
    Then([e EXCEPT !.timesTabPressed = @ + 1],
         LAMBDA a :
    Then(IF a.timesTabPressed = 1
         THEN Then(setStartIndex(setSuggestions(a.suggestionManager,
                                                a.tabCompletionHandler[1],
                                                a.runeSpare), 0),
                   LAMBDA m :
                       [a EXCEPT !.suggestionManager = m,
                                 !.promptLinesAtSuggestionInitiation = NumLines(a),
                                 !.bell = @ \/ count(m) = 0])
         ELSE a,
         LAMBDA b :
    Then(IF b.reverseTab /\ b.tabDirection # "Backward"
         THEN [b EXCEPT !.suggestionManager = previous(previous(@)),
                        !.tabDirection = "Backward"]
         ELSE IF ~b.reverseTab /\ b.tabDirection # "Forward"
         THEN [b EXCEPT !.suggestionManager = next(next(@)),
                        !.tabDirection = "Forward"]
         ELSE b,
         LAMBDA c :
    ThenRun([InsertString([c EXCEPT !.reverseTab = FALSE],
                          c.rememberedSuggestionStaticData)
                EXCEPT !.rememberedSuggestionStaticData = <<>>],
            LAMBDA d :
    Then(attemptCompletion(d.suggestionManager,
                           tabCompletionMode(c.timesTabPressed),
                           e.cursor),
         LAMBDA ac :
             IF ac[2].panicked
             THEN [d EXCEPT !.suggestionManager = ac[1],
                            !.blockedOn = "panic"]
             ELSE applyCompletion([d EXCEPT !.suggestionManager = ac[1]],
                                  ac[2]))))))

---------------------------------------------------------------------------
(* Key bindings, key_callback_machine.go.  A key is a record of key and    *)
(* modifiers.  A callback is a record: fn names the function; a callback   *)
(* of the program using the library has fn "user", an id, and the value it *)
(* returns.  l.calls is the list of the callbacks invoked by the handler   *)
(* that is running (finishEdit, which no key is bound to, lists itself      *)
(* there too).                                                              *)

ModifierAlt == 2
ModifierCtrl == 4

ctrl(k) == k % 64

Key(k) == [key |-> k, modifiers |-> 0]
AltKey(k) == [key |-> k, modifiers |-> ModifierAlt]

\* editorInternal(fn): runs fn and returns false
editorInternal(fn) == [fn |-> fn, id |-> 0, ret |-> FALSE]

newKeyCallbackMachine ==
    [keyCallbacks         |-> <<>>,
     keyAssignments       |-> <<>>,
     currentMatchingKeys  |-> {},
     sequenceLength       |-> 0,
     shouldProcessThisKey |-> FALSE]

\* The functions editorInternal wraps in setDefaultKeybinds, and what the
\* bindings of enterSearch do to the search editor they are registered on.
\* clearScreen, enterSearch and insertLastWords are bound but their keys
\* are not pressed in this model; editInExternalEditor and transposeWords
\* panic.
InternalFunction(fn, e) ==
    CASE fn = "goHome" -> goHome(e)
      [] fn = "goEnd" -> goEnd(e)
      [] fn = "cursorLeftCharacter" -> cursorLeftCharacter(e)
      [] fn = "cursorRightCharacter" -> cursorRightCharacter(e)
      [] fn = "cursorLeftWord" -> cursorLeftWord(e)
      [] fn = "cursorRightWord" -> cursorRightWord(e)
      [] fn = "eraseCharacterForwards" -> eraseCharacterForwards(e)
      [] fn = "eraseCharacterBackwards" -> eraseCharacterBackwards(e)
      [] fn = "eraseAlnumWordBackwards" -> eraseAlnumWordBackwards(e)
      [] fn = "eraseAlnumWordForwards" -> eraseAlnumWordForwards(e)
      [] fn = "eraseWordBackwards" -> eraseWordBackwards(e)
      [] fn = "eraseToEnd" -> eraseToEnd(e)
      [] fn = "killLine" -> killLine(e)
      [] fn = "transposeCharacters" -> transposeCharacters(e)
      [] fn = "capitalizeWord" -> capitalizeWord(e)
      [] fn = "lowercaseWord" -> lowercaseWord(e)
      [] fn = "uppercaseWord" -> uppercaseWord(e)
      [] fn = "finish" -> finish(e)
      [] fn = "searchForwards" -> searchForwards(e)
      [] fn = "searchBackwards" -> searchBackwards(e)
      [] fn = "searchCycle" -> [e EXCEPT !.refreshNeeded = TRUE]
      [] fn = "searchCancel" ->
             LET a == endSearch(Finish(e)) IN
             IF Len(a.loopChan) < 1
             THEN [a EXCEPT !.loopChan = Append(@, "Exit")]
             ELSE [a EXCEPT !.blockedOn = "loopChan"]
      [] fn = "searchClearScreen" -> [e EXCEPT !.refreshNeeded = TRUE]
      [] fn = "searchAccept" -> Finish(e)

\* calling a KeybindingCallback: <<the editor it leaves, what it returns>>
CallCallback(cb, e) ==
    LET logged == [e EXCEPT !.calls = Append(@, cb)] IN
    IF cb.fn = "user" THEN <<logged, cb.ret>>
    ELSE <<InternalFunction(cb.fn, logged), FALSE>>

\* findMatchingKeysIndex: an entry of the same length is taken when the
\* comparison reaches the last key and that key is equal; the keys before
\* it do not decide.  The entry visited last wins, in the order of a Go map.
MatchingIndices(k, keys) ==
    {i \in DOMAIN k.keyAssignments :
        /\ Len(k.keyAssignments[i]) = Len(keys)
        /\ keys # <<>>
        /\ k.keyAssignments[i][Len(keys)] = keys[Len(keys)]}

findMatchingKeysIndex(e, keys) ==
    LET m == MatchingIndices(e.keyCallbackMachine, keys) IN
    IF m = {} THEN e.assignedKeyIndexSerial ELSE CHOOSE i \in m : TRUE

\* registerInputCallback; the serial is a variable of the package
registerInputCallback(e, keys, callback) ==
    LET assignedIndex == findMatchingKeysIndex(e, keys)
        k == e.keyCallbackMachine
        put(f, v) == [i \in DOMAIN f \cup {assignedIndex} |->
                         IF i = assignedIndex THEN v ELSE f[i]] IN
    [e EXCEPT !.assignedKeyIndexSerial =
                  IF assignedIndex = @ THEN @ + 1 ELSE @,
              !.keyCallbackMachine.keyAssignments = put(@, keys),
              !.keyCallbackMachine.keyCallbacks = put(@, callback)]

\* lineEditor.RegisterKeybinding
RegisterKeybinding(e, keys, binding) == registerInputCallback(e, keys, binding)

\* the keys of a captured prefix, put back with InsertChar(rune(key.key))
RECURSIVE InsertCaptured(_, _, _)
InsertCaptured(e, keys, n) ==
    IF n = 0 THEN e
    ELSE InsertChar(InsertCaptured(e, keys, n - 1), keys[n].key)

\* keyPressed.  currentMatchingKeys is a set: the order Go's map iteration
\* gives it does not matter, its members agree on the keys matched so far
\* and two complete members would be the same sequence.
keyPressed(e, newKey) ==
    LET k == e.keyCallbackMachine
        starting == k.currentMatchingKeys \cup
                        {k.keyAssignments[i] : i \in
                            {j \in DOMAIN k.keyCallbacks :
                                k.keyAssignments[j][1] = newKey}}
        oldMatchingKeys == IF k.sequenceLength = 0 THEN starting
                           ELSE k.currentMatchingKeys
        sequenceLength == k.sequenceLength + 1
        matching == {keys \in oldMatchingKeys :
                        /\ Len(keys) >= sequenceLength
                        /\ keys[sequenceLength] = newKey}
        complete == {keys \in matching : Len(keys) = sequenceLength} IN
    IF k.sequenceLength = 0 /\ starting = {}
    THEN [e EXCEPT !.keyCallbackMachine.shouldProcessThisKey = TRUE]
    ELSE IF matching = {}
    THEN \* insert any keys that were captured
         LET r == IF oldMatchingKeys # {}
                  THEN InsertCaptured(e, CHOOSE keys \in oldMatchingKeys : TRUE,
                                      sequenceLength - 1)
                  ELSE e IN
         [r EXCEPT !.keyCallbackMachine.currentMatchingKeys = {},
                   !.keyCallbackMachine.sequenceLength = 0,
                   !.keyCallbackMachine.shouldProcessThisKey = TRUE]
    ELSE IF complete # {}
    THEN LET matchingKeys == CHOOSE keys \in complete : TRUE IN
         Then(k.keyCallbacks[findMatchingKeysIndex(e, matchingKeys)],
              LAMBDA cb :
         Then(CallCallback(cb, e),
              LAMBDA c :
                  [c[1] EXCEPT
                      !.keyCallbackMachine.shouldProcessThisKey = c[2],
                      !.keyCallbackMachine.sequenceLength = 0,
                      !.keyCallbackMachine.currentMatchingKeys = {}]))
    ELSE [e EXCEPT !.keyCallbackMachine.currentMatchingKeys = matching,
                   !.keyCallbackMachine.sequenceLength = sequenceLength,
                   !.keyCallbackMachine.shouldProcessThisKey = FALSE]

\* keyCallbackMachineImpl.interrupted
kcmInterrupted(e) ==
    LET seq == <<Key(ctrl(67))>>
        r == [e EXCEPT !.keyCallbackMachine.sequenceLength = 0,
                       !.keyCallbackMachine.currentMatchingKeys = {}]
        index == findMatchingKeysIndex(r, seq) IN
    IF index # r.assignedKeyIndexSerial
    THEN Then(CallCallback(r.keyCallbackMachine.keyCallbacks[index], r),
              LAMBDA c :
                  [c[1] EXCEPT !.keyCallbackMachine.shouldProcessThisKey = c[2]])
    ELSE [r EXCEPT !.keyCallbackMachine.shouldProcessThisKey = TRUE]

shouldProcessLastPressedKey(e) == e.keyCallbackMachine.shouldProcessThisKey

---------------------------------------------------------------------------
(* The editor and its life cycle, editor.go and impl.go.                    *)
(* Besides the fields of lineEditor the record holds what the editor acts   *)
(* on: tty (the terminal's row), rawMode (the termios in force),            *)
(* pasteMode (the last bracketed-paste switch written) and pasteRepeated    *)
(* (a switch was written twice in a row); and what the running handler did: *)
(* bell, calls, and blockedOn (the channel the loop task is blocked on in a *)
(* send nobody will receive).  pasted lists the strings the paste handler   *)
(* was called with and logged the messages written to stderr by the         *)
(* decoder.  csiParameterBytes and csiIntermediateBytes are variables of    *)
(* the package, csiParameters and reverseTab locals of handleReadEvent.     *)
(* tabCompletionHandler is <<>> for nil, or <<cs>> for a handler returning  *)
(* the completions cs; searchEditor is <<>> for nil, or <<s>>.  A map of Go *)
(* is a function on the set of its keys, the empty map <<>>.  runeSpare is  *)
(* the capacity the runtime gives a []rune conversion beyond its length.    *)

\* NewEditor
NewEditor ==
    [finish |-> FALSE,
     isSearching |-> FALSE,
     searchOffset |-> 0,
     buffer |-> <<>>,
     pendingChars |-> <<>>,
     incompleteData |-> <<>>,
     inputError |-> "nil",
     returnedLine |-> <<>>,
     cursor |-> 0,
     drawnCursor |-> 0,
     drawnEndOfLineOffset |-> 0,
     inlineSearchCursor |-> 0,
     charsTouchedInTheMiddle |-> 0,
     numColumns |-> 80,
     extraForwardLines |-> 0,
     cachedPromptValid |-> FALSE,
     originRow |-> 0,
     originColumn |-> 0,
     newPrompt |-> <<>>,
     alwaysRefresh |-> FALSE,
     keyCallbackMachine |-> newKeyCallbackMachine,
     assignedKeyIndexSerial |-> 0,
     termios |-> [VEOF |-> 4, VWERASE |-> 23, VKILL |-> 21, VERASE |-> 127],
     wasInterrupted |-> FALSE,
     previousInterruptWasHandledAsInterrupt |-> FALSE,
     state |-> "Free",
     previousFreeState |-> "Free",
     initialized |-> FALSE,
     refreshNeeded |-> FALSE,
     isEditing |-> FALSE,
     prohibitInputProcessing |-> FALSE,
     loopChan |-> <<>>,
     laterChan |-> <<>>,
     signalChan |-> <<>>,
     onInterruptHandled |-> "nil",
     enableSignalHandling |-> TRUE,
     inInterruptHandler |-> FALSE,
     interruptHandlerRequestedFinish |-> FALSE,
     enableBracketedPaste |-> FALSE,
     tty |-> [cells |-> <<>>, col |-> 1],
     rawMode |-> FALSE,
     pasteMode |-> "none",
     pasteRepeated |-> FALSE,
     bell |-> FALSE,
     calls |-> <<>>,
     blockedOn |-> "none",
     searchEditor |-> <<>>,
     resetBufferOnSearchEnd |-> FALSE,
     searchOffsetState |-> "Unbiased",
     preSearchCursor |-> 0,
     preSearchBuffer |-> <<>>,
     pasteBuffer |-> <<>>,
     pasteHandler |-> "nil",
     pasted |-> <<>>,
     logged |-> <<>>,
     csiParameterBytes |-> <<>>,
     csiIntermediateBytes |-> <<>>,
     csiParameters |-> <<>>,
     reverseTab |-> FALSE,
     history |-> <<>>,
     historyCursor |-> 0,
     timesTabPressed |-> 0,
     tabDirection |-> "Forward",
     tabCompletionHandler |-> <<>>,
     rememberedSuggestionStaticData |-> <<>>,
     suggestionManager |-> newSuggestionManager,
     suggestionDisplay |-> newSuggestionDisplay,
     promptLinesAtSuggestionInitiation |-> 0,
     currentSpans |-> [spansStarting |-> <<>>, spansEnding |-> <<>>],
     drawnSpans |-> [shared |-> FALSE,
                     spans |-> [spansStarting |-> <<>>, spansEnding |-> <<>>]],
     currentMasks |-> <<>>,
     runeSpare |-> 0]

\* a write of "\x1b[?2004h" or "\x1b[?2004l" to stderr
WritePasteMode(e, m) ==
    [e EXCEPT !.pasteMode = m,
              !.pasteRepeated = @ \/ e.pasteMode = m]

\* the bindings setDefaultKeybinds registers, in its order
DefaultKeybinds(e) ==
    << <<<<Key(ctrl(78))>>, "searchForwards">>,
       <<<<Key(ctrl(80))>>, "searchBackwards">>,
       <<<<Key(ctrl(65))>>, "goHome">>,
       <<<<Key(ctrl(66))>>, "cursorLeftCharacter">>,
       <<<<Key(ctrl(68))>>, "eraseCharacterForwards">>,
       <<<<Key(ctrl(69))>>, "goEnd">>,
       <<<<Key(ctrl(70))>>, "cursorRightCharacter">>,
       <<<<Key(ctrl(72))>>, "eraseCharacterBackwards">>,
       <<<<Key(127)>>, "eraseCharacterBackwards">>,
       <<<<Key(ctrl(75))>>, "eraseToEnd">>,
       <<<<Key(ctrl(76))>>, "clearScreen">>,
       <<<<Key(ctrl(82))>>, "enterSearch">>,
       <<<<Key(ctrl(84))>>, "transposeCharacters">>,
       <<<<Key(10)>>, "finish">>,
       <<<<Key(ctrl(88)), Key(ctrl(69))>>, "editInExternalEditor">>,
       <<<<AltKey(46)>>, "insertLastWords">>,
       <<<<AltKey(98)>>, "cursorLeftCharacter">>,
       <<<<AltKey(102)>>, "cursorRightCharacter">>,
       <<<<AltKey(8)>>, "eraseAlnumWordBackwards">>,
       <<<<AltKey(100)>>, "eraseAlnumWordForwards">>,
       <<<<AltKey(99)>>, "capitalizeWord">>,
       <<<<AltKey(108)>>, "lowercaseWord">>,
       <<<<AltKey(117)>>, "uppercaseWord">>,
       <<<<AltKey(116)>>, "transposeWords">>,
       <<<<Key(e.termios.VWERASE)>>, "eraseWordBackwards">>,
       <<<<Key(e.termios.VKILL)>>, "killLine">>,
       <<<<Key(e.termios.VERASE)>>, "eraseCharacterBackwards">> >>

RECURSIVE RegisterAll(_, _)
RegisterAll(e, bindings) ==
    IF bindings = <<>> THEN e
    ELSE Then(RegisterKeybinding(e, Head(bindings)[1],
                                 editorInternal(Head(bindings)[2])),
              LAMBDA r : RegisterAll(r, Tail(bindings)))

\* lineEditor.setDefaultKeybinds
setDefaultKeybinds(e) == RegisterAll(e, DefaultKeybinds(e))

\* lineEditor.Initialize
Initialize(e) ==
    IF e.initialized THEN e
    ELSE [setDefaultKeybinds([e EXCEPT !.rawMode = TRUE])
             EXCEPT !.initialized = TRUE]

\* lineEditor.restore
restore(e) ==
    LET t == [e EXCEPT !.rawMode = FALSE] IN
    [(IF e.enableBracketedPaste THEN WritePasteMode(t, "l") ELSE t)
        EXCEPT !.initialized = FALSE]

\* a send by the loop task on a channel of capacity 1: the loop task is the
\* only receiver, so a send on a full channel never returns
SendLater(e, code) ==
    IF Len(e.laterChan) < 1 THEN [e EXCEPT !.laterChan = Append(@, code)]
    ELSE [e EXCEPT !.blockedOn = "laterChan"]

SendLoop(e, code) ==
    IF Len(e.loopChan) < 1 THEN [e EXCEPT !.loopChan = Append(@, code)]
    ELSE [e EXCEPT !.blockedOn = "loopChan"]

\* lineEditor.handleInterruptEvent; the handler of the program either calls
\* Finish ("finish") or returns ("return")
handleInterruptEvent(e) ==
    Then(kcmInterrupted([e EXCEPT
             !.wasInterrupted = FALSE,
             !.previousInterruptWasHandledAsInterrupt = FALSE]),
         LAMBDA a :
    IF ~shouldProcessLastPressedKey(a) THEN a
    ELSE LET b == [a EXCEPT !.previousInterruptWasHandledAsInterrupt = TRUE,
                            !.tty = TtyWrite(@, <<94, 67>>)]
             h == [b EXCEPT !.inInterruptHandler = TRUE,
                            !.interruptHandlerRequestedFinish = FALSE]
             c == IF b.onInterruptHandled = "nil" THEN b
                  ELSE [(IF b.onInterruptHandled = "finish" THEN Finish(h)
                         ELSE h) EXCEPT !.inInterruptHandler = FALSE] IN
         IF c.interruptHandlerRequestedFinish THEN c
         ELSE Finish([c EXCEPT !.buffer = <<>>,
                               !.charsTouchedInTheMiddle = 0,
                               !.cursor = 0]))

\* lineEditor.reallyQuitEventLoop; "\r\n" leaves the row
reallyQuitEventLoop(e) ==
    Then([repositionCursor(e, TRUE) EXCEPT
             !.buffer = <<>>, !.charsTouchedInTheMiddle = 0],
         LAMBDA b :
             SendLoop([(IF b.initialized THEN restore(b) ELSE b) EXCEPT
                          !.returnedLine = Line(e)],
                      "Exit"))

\* lineEditor.interrupted, no search active
interrupted(e) ==
    IF ~e.isEditing THEN e
    ELSE Then(handleInterruptEvent([e EXCEPT !.wasInterrupted = TRUE]),
              LAMBDA a :
         IF a.interruptHandlerRequestedFinish
         THEN reallyQuitEventLoop(
                  [a EXCEPT !.interruptHandlerRequestedFinish = FALSE,
                            !.finish = FALSE])
         ELSE IF ~a.finish \/ ~a.previousInterruptWasHandledAsInterrupt THEN a
         ELSE LET b == repositionCursor([a EXCEPT !.finish = FALSE], TRUE) IN
              SendLoop(restore([b EXCEPT !.buffer = <<>>,
                                         !.charsTouchedInTheMiddle = 0,
                                         !.isEditing = FALSE]),
                       "Retry"))

---------------------------------------------------------------------------
(* The input decoder, impl.go handleReadEvent.                              *)

\* strings.Split(s, ";")
RECURSIVE Split(_, _)
Split(s, sep) ==
    LET at == {i \in DOMAIN s : s[i] = sep} IN
    IF at = {} THEN <<s>>
    ELSE LET i == CHOOSE j \in at : \A k \in at : j <= k IN
         <<Take(s, i - 1)>> \o Split(Drop(s, i), sep)

\* the value of a string of decimal digits
RECURSIVE DigitsValue(_)
DigitsValue(p) ==
    IF p = <<>> THEN 0
    ELSE DigitsValue(Take(p, Len(p) - 1)) * 10 + (p[Len(p)] - 48)

\* uint32(value) of value, err := strconv.Atoi(p), with value = 0 on an
\* error: parameter bytes hold no sign, and an empty string and a byte that
\* is no digit are errors.  The parameters of the model have few digits.
Atoi(p) ==
    IF p = <<>> \/ \E i \in DOMAIN p : p[i] < 48 \/ p[i] > 57 THEN 0
    ELSE U32(DigitsValue(p))

\* the parameters appended to csiParameters in state CSIExpectFinal
parseParameters(bytes) ==
    LET ps == Split(bytes, 59) IN [i \in DOMAIN ps |-> Atoi(ps[i])]

\* a line the decoder writes to stderr
Log(e, msg) == [e EXCEPT !.logged = Append(@, msg)]

\* the part of the closure after the switch on l.state
handleFreeCodePoint(e, codePoint) ==
    IF codePoint = e.termios.VEOF /\ Len(e.buffer) = 0
    THEN cleanupSuggestions(finishEdit(e))
    ELSE Then(keyPressed(e, Key(codePoint)),
              LAMBDA a :
                  IF ~shouldProcessLastPressedKey(a) THEN cleanupSuggestions(a)
                  ELSE IF codePoint = 9 \/ a.reverseTab
                  THEN handleTab([a EXCEPT !.searchOffset = 0])
                  ELSE InsertChar(
                           cleanupSuggestions(
                               [a EXCEPT !.searchOffset = 0,
                                         !.rememberedSuggestionStaticData = <<>>]),
                           codePoint))

\* stopPaste with the pasted text inserted and no handler called
stopPasteInsertOnly(e) ==
    InsertString([e EXCEPT !.state = "Free", !.pasteBuffer = <<>>],
                 e.pasteBuffer)

\* ^[[201~ in paste mode: the paste handler, if there is one, is called with
\* the pasted text and returns; what is left in pasteBuffer is inserted
stopPaste(e) ==
    IF e.pasteHandler # "nil"
    THEN [e EXCEPT !.state = "Free",
                   !.pasted = Append(@, EncodeRunes(e.pasteBuffer)),
                   !.pasteBuffer = <<>>]
    ELSE InsertString([e EXCEPT !.state = "Free"], e.pasteBuffer)

\* case inputStateCSIExpectFinal: <<the editor it leaves, whether the case
\* was left by break, for the code after the switch>>
handleCsiFinal(e, codePoint) ==
    LET a == [e EXCEPT !.state = e.previousFreeState,
                       !.csiParameters = @ \o parseParameters(e.csiParameterBytes)]
        isInPaste == a.state = "Paste"
        param1 == IF Len(a.csiParameters) > 0 THEN a.csiParameters[1] ELSE 0
        param2 == IF Len(a.csiParameters) > 1 THEN a.csiParameters[2] ELSE 0
        modifiers == IF param2 = 0 THEN 0 ELSE param2 - 1
        word == modifiers = ModifierAlt \/ modifiers = ModifierCtrl
        b == [a EXCEPT !.csiParameters = <<>>,
                       !.csiParameterBytes = <<>>,
                       !.csiIntermediateBytes = <<>>] IN
    IF isInPaste /\ codePoint # 126 /\ param1 # 201
    THEN <<InsertChar(
               InsertString(
                   InsertString(InsertChar(InsertChar(a, 27), 91),
                                DecodeRunes(a.csiParameterBytes)),
                   DecodeRunes(a.csiIntermediateBytes)),
               codePoint), FALSE>>
    ELSE IF ~(codePoint >= 64 /\ codePoint <= 127)
    THEN <<Log(a, "Invalid CSI"), FALSE>>
    ELSE IF codePoint = 90 THEN <<[b EXCEPT !.reverseTab = TRUE], TRUE>>
    ELSE Then(cleanupSuggestions(b), LAMBDA c :
         <<CASE codePoint = 65 -> searchBackwards(c)
             [] codePoint = 66 -> searchForwards(c)
             [] codePoint = 68 -> IF word THEN cursorLeftWord(c)
                                  ELSE cursorLeftCharacter(c)
             [] codePoint = 67 -> IF word THEN cursorRightWord(c)
                                  ELSE cursorRightCharacter(c)
             [] codePoint = 72 -> goHome(c)
             [] codePoint = 70 -> goEnd(c)
             [] codePoint = 126 ->
                  IF param1 = 3
                  THEN [(IF modifiers = ModifierCtrl
                         THEN eraseAlnumWordForwards(c)
                         ELSE eraseCharacterForwards(c))
                           EXCEPT !.searchOffset = 0]
                  ELSE IF ~c.enableBracketedPaste
                  THEN \* the switch is left: panic("unreachable")
                       [c EXCEPT !.blockedOn = "panic"]
                  ELSE IF ~isInPaste /\ param1 = 200
                  THEN [c EXCEPT !.state = "Paste"]
                  ELSE IF isInPaste /\ param1 = 201
                  THEN stopPaste(c)
                  ELSE Log(c, "Unknown '~'")
             [] OTHER -> Log(c, "Unknown Final"),
           FALSE>>)

\* the closure handleReadEvent runs for each code point
handleCodePoint(e, codePoint) ==
    IF codePoint = 0 THEN e
    ELSE IF e.state = "GotEscape"
    THEN IF codePoint = 91
         THEN [e EXCEPT !.state = "CSIExpectParameter"]
         ELSE [keyPressed(e, AltKey(codePoint)) EXCEPT !.state = "Free"]
    ELSE IF e.state = "CSIExpectParameter" /\ codePoint >= 48 /\ codePoint <= 63
    THEN [e EXCEPT !.csiParameterBytes = Append(@, codePoint)]
    ELSE IF /\ e.state \in {"CSIExpectParameter", "CSIExpectIntermediate"}
            /\ codePoint >= 32 /\ codePoint <= 47
    THEN [e EXCEPT !.state = "CSIExpectIntermediate",
                   !.csiIntermediateBytes = Append(@, codePoint)]
    ELSE IF e.state \in {"CSIExpectParameter", "CSIExpectIntermediate",
                         "CSIExpectFinal"}
    THEN Then(handleCsiFinal(e, codePoint),
              LAMBDA r : IF r[2] THEN handleFreeCodePoint(r[1], codePoint)
                         ELSE r[1])
    ELSE IF e.state = "Verbatim"
    THEN InsertChar([e EXCEPT !.state = "Free"], codePoint)
    ELSE IF e.state = "Paste"
    THEN IF codePoint = 27
         THEN [e EXCEPT !.previousFreeState = "Paste", !.state = "GotEscape"]
         ELSE IF e.pasteHandler # "nil"
         THEN [e EXCEPT !.pasteBuffer = Append(@, codePoint)]
         ELSE InsertChar(e, codePoint)
    ELSE LET f == [e EXCEPT !.previousFreeState = "Free"] IN
         IF codePoint = 27 \/ codePoint = 22
         THEN Then(keyPressed(f, Key(codePoint)),
                   LAMBDA a :
                       IF shouldProcessLastPressedKey(a)
                       THEN [a EXCEPT !.state = IF codePoint = 27
                                                THEN "GotEscape"
                                                ELSE "Verbatim"]
                       ELSE a)
         ELSE handleFreeCodePoint(f, codePoint)

\* the loop over inputView: <<the editor it leaves, consumedCodePoints>>
RECURSIVE handleCodePoints(_, _, _)
handleCodePoints(e, inputView, consumedCodePoints) ==
    IF inputView = <<>> \/ e.finish \/ e.blockedOn # "none"
    THEN <<e, consumedCodePoints>>
    ELSE Then(handleCodePoint(e, Head(inputView)),
              LAMBDA a : handleCodePoints(a, Tail(inputView),
                                          consumedCodePoints + 1))

\* handleReadEvent from the place unix.Read returns; keyBuf holds the bytes
\* read, and no read is made when incompleteData is not empty
handleReadEvent(e, keyBuf) ==
    LET didRead == e.incompleteData = <<>> IN
    IF didRead /\ keyBuf = <<>> THEN e
    ELSE IF didRead /\ keyBuf = <<ctrl(67)>> THEN handleInterruptEvent(e)
    ELSE LET incompleteData ==
                 e.incompleteData \o (IF didRead THEN keyBuf ELSE <<>>) IN
         Then(handleCodePoints([e EXCEPT !.csiParameters = <<>>,
                                         !.reverseTab = FALSE],
                               DecodeRunes(incompleteData), 0),
              LAMBDA r :
                  LET consumedCodePoints == r[2]
                      left == IF consumedCodePoints = Len(incompleteData)
                              THEN <<>>
                              ELSE Drop(incompleteData, consumedCodePoints)
                      a == [r[1] EXCEPT !.incompleteData = left] IN
                  IF left # <<>> /\ ~a.finish
                  THEN SendLater(a, "TryUpdateOnce")
                  ELSE a)

\* tryUpdateOnce up to the read of handleReadEvent
tryUpdateOnceBegin(e) ==
    IF e.wasInterrupted THEN handleInterruptEvent(e) ELSE e

\* tryUpdateOnce from the read on
tryUpdateOnceEnd(e, keyBuf) ==
    Then(handleReadEvent(e, keyBuf),
         LAMBDA a :
             IF a.blockedOn # "none" THEN a
             ELSE Then(refreshDisplay(
                           IF a.alwaysRefresh
                           THEN [a EXCEPT !.refreshNeeded = TRUE]
                           ELSE a),
                       LAMBDA b :
                           IF b.blockedOn = "none" /\ b.finish
                           THEN reallyQuitEventLoop(b)
                           ELSE b))

\* lineEditor.SetPrompt
SetPrompt(e, prompt) ==
    [e EXCEPT !.cachedPromptValid = FALSE, !.newPrompt = prompt]

\* GetLine up to the go statement: pending is what stdin holds when vtDSR
\* drains it into incompleteData; the terminal reports row 1, column 1
GetLineEnter(e, prompt, pending) ==
    Then([Initialize(e) EXCEPT !.isEditing = TRUE,
                               !.calls = <<>>,
                               !.bell = FALSE,
                               !.tty = [cells |-> <<>>, col |-> 1]],
         LAMBDA a :
    LET b == IF a.enableBracketedPaste THEN WritePasteMode(a, "h") ELSE a
        c == [StripStyles(Reset(SetPrompt(b, prompt))) EXCEPT
                  !.incompleteData = @ \o pending,
                  !.originRow = 1,
                  !.originColumn = 1,
                  !.historyCursor = Len(b.history)] IN
    [refreshDisplay(c) EXCEPT !.loopChan = <<>>,
                              !.laterChan = <<>>,
                              !.blockedOn = "none"])

---------------------------------------------------------------------------
(* The editing operations called on an editor that is editing, as the key  *)
(* bindings and the program's callbacks call them, and the refresh that     *)
(* tryUpdateOnce makes after the operations of one read.  obs.op is the     *)
(* operation of the last step, obs.ops the number of operations since the   *)
(* last refresh, obs.batch the number of operations between two refreshes   *)
(* and obs.refreshes the number of refreshes counted.                       *)
(* SpecEdit has every operation, each followed by its refresh, on an editor *)
(* with alwaysRefresh set, whose refresh always reflows the line.           *)
(* SpecRefresh has the insertions, erasures, case changes and cursor moves, *)
(* up to MaxOps of them decoded from one read, on an editor without         *)
(* alwaysRefresh, whose refresh takes the fast paths.                       *)

\* the prompt of the model, ">"
Prompt == <<62>>

\* code points InsertChar is given: a letter and a space
EditChars == {97, 32}

\* lines SetLine is given: empty, and "e" with acute accent (two bytes)
SetLineInputs == {<<>>, <<195, 169>>}

\* the editor at the start of a handler
Started(e) == [e EXCEPT !.bell = FALSE, !.calls = <<>>]

NoLoop ==
    /\ gl = [pc |-> "edit", calls |-> 1, returns |-> 0, cause |-> "none",
             returned |-> [line |-> <<>>, err |-> "nil", cause |-> "none"]]
    /\ reader = "none"
    /\ env = [stdin |-> <<>>, closed |-> FALSE, typed |-> <<>>, signals |-> 0]

InitEdit ==
    /\ l = GetLineEnter([NewEditor EXCEPT !.alwaysRefresh = TRUE], Prompt, <<>>)
    /\ NoLoop
    /\ obs = [op |-> "GetLine", ops |-> 0, batch |-> 1, refreshes |-> 0]

InitRefresh ==
    /\ l = GetLineEnter(NewEditor, Prompt, <<>>)
    /\ NoLoop
    /\ obs = [op |-> "GetLine", ops |-> 0, batch |-> MaxOps, refreshes |-> 0]

\* The operations index the buffer at the cursor: with the cursor beyond
\* the end Go panics or reads the spare capacity of the slice, and the
\* model does not go on from there, except by SetLine.
EditStep(name, e) ==
    /\ l.cursor <= Len(l.buffer)
    /\ obs.ops < obs.batch
    /\ l' = e
    /\ Len(l'.buffer) <= MaxLen
    /\ obs' = [obs EXCEPT !.op = name, !.ops = @ + 1]
    /\ UNCHANGED <<gl, reader, env>>

DoInsertChar ==
    \E ch \in EditChars : EditStep("InsertChar", InsertChar(Started(l), ch))
DoSetLine ==
    \E line \in SetLineInputs :
        /\ obs.ops < obs.batch
        /\ l' = SetLine(Started(l), line)
        /\ obs' = [obs EXCEPT !.op = "SetLine", !.ops = @ + 1]
        /\ UNCHANGED <<gl, reader, env>>
DoCursorLeftWord == EditStep("cursorLeftWord", cursorLeftWord(Started(l)))
DoCursorLeftCharacter ==
    EditStep("cursorLeftCharacter", cursorLeftCharacter(Started(l)))
DoCursorRightWord == EditStep("cursorRightWord", cursorRightWord(Started(l)))
DoCursorRightCharacter ==
    EditStep("cursorRightCharacter", cursorRightCharacter(Started(l)))
DoGoHome == EditStep("goHome", goHome(Started(l)))
DoGoEnd == EditStep("goEnd", goEnd(Started(l)))
DoEraseCharacterBackwards ==
    EditStep("eraseCharacterBackwards", eraseCharacterBackwards(Started(l)))
DoEraseCharacterForwards ==
    EditStep("eraseCharacterForwards", eraseCharacterForwards(Started(l)))
DoEraseAlnumWordBackwards ==
    EditStep("eraseAlnumWordBackwards", eraseAlnumWordBackwards(Started(l)))
DoEraseAlnumWordForwards ==
    EditStep("eraseAlnumWordForwards", eraseAlnumWordForwards(Started(l)))
DoEraseWordBackwards ==
    EditStep("eraseWordBackwards", eraseWordBackwards(Started(l)))
DoEraseToEnd == EditStep("eraseToEnd", eraseToEnd(Started(l)))
DoKillLine == EditStep("killLine", killLine(Started(l)))
DoTransposeCharacters ==
    EditStep("transposeCharacters", transposeCharacters(Started(l)))
DoCapitalizeWord == EditStep("capitalizeWord", capitalizeWord(Started(l)))
DoLowercaseWord == EditStep("lowercaseWord", lowercaseWord(Started(l)))
DoUppercaseWord == EditStep("uppercaseWord", uppercaseWord(Started(l)))

\* the end of tryUpdateOnce after the operations of one read
RefreshStep(counted) ==
    /\ l.cursor <= Len(l.buffer)
    /\ obs.ops > 0
    /\ l' = refreshDisplay(
                IF l.alwaysRefresh
                THEN [Started(l) EXCEPT !.refreshNeeded = TRUE]
                ELSE Started(l))
    /\ obs' = [obs EXCEPT !.op = "refreshDisplay", !.ops = 0,
                          !.refreshes = @ + counted]
    /\ UNCHANGED <<gl, reader, env>>

DoRefreshDisplay == RefreshStep(0)

\* the terminal keeps what a wrong refresh leaves on it, so the refreshes
\* of a behaviour of SpecRefresh are counted and capped
DoRefreshDisplayCounted == obs.refreshes < MaxRefreshes /\ RefreshStep(1)

NextEdit ==
    \/ DoInsertChar
    \/ DoSetLine
    \/ DoCursorLeftWord
    \/ DoCursorLeftCharacter
    \/ DoCursorRightWord
    \/ DoCursorRightCharacter
    \/ DoGoHome
    \/ DoGoEnd
    \/ DoEraseCharacterBackwards
    \/ DoEraseCharacterForwards
    \/ DoEraseAlnumWordBackwards
    \/ DoEraseAlnumWordForwards
    \/ DoEraseWordBackwards
    \/ DoEraseToEnd
    \/ DoKillLine
    \/ DoTransposeCharacters
    \/ DoCapitalizeWord
    \/ DoLowercaseWord
    \/ DoUppercaseWord
    \/ DoRefreshDisplay

SpecEdit == InitEdit /\ [][NextEdit]_vars

NextRefresh ==
    \/ DoInsertChar
    \/ DoCursorLeftCharacter
    \/ DoCursorRightCharacter
    \/ DoEraseCharacterBackwards
    \/ DoEraseCharacterForwards
    \/ DoUppercaseWord
    \/ DoLowercaseWord
    \/ DoRefreshDisplayCounted

SpecRefresh == InitRefresh /\ [][NextRefresh]_vars

\* C1: after any editing operation, with no search active, the cursor is
\* within the buffer and inlineSearchCursor equals the cursor.
C1_CursorWithinBufferAndSearchCursor ==
    ~l.isSearching =>
        /\ 0 <= l.cursor
        /\ l.cursor <= Len(l.buffer)
        /\ l.inlineSearchCursor = l.cursor

\* the terminal row and cursor column that show the prompt and the buffer
Shown(e) ==
    [cells |-> StripBlanks(e.newPrompt \o printCharacters(e.buffer)),
     col   |-> actualRenderedStringMetricsImpl(e.newPrompt)
               + Len(printCharacters(Take(e.buffer, e.cursor))) + 1]

\* C10: after refreshDisplay the terminal shows the prompt and the buffer
\* and its cursor is at the buffer cursor, whatever operations came since
\* the refresh before.
C10_RefreshShowsBuffer ==
    obs.op = "refreshDisplay" => l.tty = Shown(l)

---------------------------------------------------------------------------
(* SpecKeys: the program registers key sequences with RegisterKeybinding   *)
(* on the editor GetLine has set up, and then keys arrive, one in a read.   *)
(* obs.reg is the set of <<sequence, callback>> the program registered      *)
(* (the latest callback of each sequence), obs.regs the number of calls,    *)
(* and obs.hist the last HistLen key presses,                                *)
(* each with the key, the matcher's sequenceLength, the buffer and the      *)
(* cursor before it and the callbacks it invoked.                           *)

\* the bindings the program chooses from, each a key sequence and what its
\* callback returns: "x", "x y", "y y" (as long as "x y" and ending in the
\* same key) and "x y x"
Bindings ==
    {[keys |-> <<Key(120)>>, ret |-> FALSE],
     [keys |-> <<Key(120), Key(121)>>, ret |-> FALSE],
     [keys |-> <<Key(121), Key(121)>>, ret |-> TRUE],
     [keys |-> <<Key(120), Key(121), Key(120)>>, ret |-> FALSE]}

\* keys pressed: "x", "y" and tab
PressKeys == {120, 121, 9}

\* the presses obs.hist keeps: as many as the longest sequence has keys
HistLen ==
    CHOOSE n \in {Len(b.keys) : b \in Bindings} :
        \A c \in Bindings : Len(c.keys) <= n

InitKeys ==
    /\ l = GetLineEnter(NewEditor, Prompt, <<>>)
    /\ NoLoop
    /\ obs = [reg |-> {}, regs |-> 0, hist |-> <<>>]

\* the program calls RegisterKeybinding(keys, callback)
DoRegisterKeybinding ==
    \E b \in Bindings :
        LET cb == [fn |-> "user", id |-> obs.regs + 1, ret |-> b.ret] IN
        /\ obs.regs < MaxRegs
        /\ obs.hist = <<>>
        /\ l' = RegisterKeybinding(l, b.keys, cb)
        /\ obs' = [obs EXCEPT
                      !.reg = {p \in @ : p[1] # b.keys} \cup {<<b.keys, cb>>},
                      !.regs = @ + 1]
        /\ UNCHANGED <<gl, reader, env>>

\* one key arrives and tryUpdateOnce handles the read
DoPressKey ==
    \E k \in PressKeys :
        LET h == [key |-> Key(k),
                  sequenceLength |-> l.keyCallbackMachine.sequenceLength,
                  buffer |-> l.buffer,
                  cursor |-> l.cursor,
                  calls |-> l'.calls] IN
        /\ l' = tryUpdateOnceEnd(Started(l), EncodeRune(k))
        /\ Len(l'.buffer) <= MaxLen
        /\ obs' = [obs EXCEPT !.hist =
                      IF Len(@) < HistLen THEN Append(@, h)
                      ELSE Append(Tail(@), h)]
        /\ UNCHANGED <<gl, reader, env>>

NextKeys ==
    \/ DoRegisterKeybinding
    \/ DoPressKey

SpecKeys == InitKeys /\ [][NextKeys]_vars

\* the last n presses
LastPresses(n) == SubSeq(obs.hist, Len(obs.hist) - n + 1, Len(obs.hist))

\* the last n presses were the keys of seq, the first on an idle matcher
Pressed(seq) ==
    /\ Len(obs.hist) >= Len(seq)
    /\ LET h == LastPresses(Len(seq)) IN
       /\ h[1].sequenceLength = 0
       /\ \A i \in 1..Len(seq) : h[i].key = seq[i]

RECURSIVE CallsOf(_)
CallsOf(h) == IF h = <<>> THEN <<>> ELSE Head(h).calls \o CallsOf(Tail(h))

\* C3: pressing the keys of a registered sequence from the idle matcher
\* invokes its callback once and no other, and the buffer does not change
\* before the last key.
C3_RegisteredSequenceInvokesItsCallback ==
    \A p \in obs.reg :
        Pressed(p[1]) =>
            LET h == LastPresses(Len(p[1])) IN
            /\ CallsOf(h) = <<p[2]>>
            /\ \A i \in 1..Len(h) : h[i].buffer = h[1].buffer

\* seq is the beginning of keys
IsPrefix(seq, keys) ==
    Len(seq) <= Len(keys) /\ SubSeq(keys, 1, Len(seq)) = seq

\* the code points of a key sequence
RECURSIVE KeyCodes(_)
KeyCodes(keys) ==
    IF keys = <<>> THEN <<>> ELSE <<Head(keys).key>> \o KeyCodes(Tail(keys))

\* C4: pressing all keys but the last of a registered sequence of two or
\* more keys, and then a key x with which the keys pressed begin no
\* registered sequence, inserts those keys and then x at the cursor, in
\* order and once each, and leaves the matcher idle.
C4_MismatchInsertsCapturedKeysThenKey ==
    \A p \in obs.reg, x \in PressKeys :
        LET n == Len(p[1])
            pressed == Append(SubSeq(p[1], 1, n - 1), Key(x)) IN
        (/\ n >= 2
         /\ \A q \in obs.reg : ~IsPrefix(pressed, q[1])
         /\ Pressed(pressed)) =>
            LET h == LastPresses(n) IN
            /\ l.buffer = Take(h[1].buffer, h[1].cursor) \o KeyCodes(pressed)
                              \o Drop(h[1].buffer, h[1].cursor)
            /\ l.keyCallbackMachine.sequenceLength = 0

---------------------------------------------------------------------------
(* Spec: GetLine and its tasks, impl.go 595-708.  The loop task is in gl:  *)
(* pc is "idle" outside GetLine, "started" after the go statement,          *)
(* "select" in the select of the loop, "read" blocked in unix.Read and      *)
(* "stuck" blocked in a send on a full channel ("panic": the program has   *)
(* ended in a panic of the loop task).  gl.cause tells what made   *)
(* the loop task post the message now in loopChan, gl.returned what the     *)
(* last return of GetLine gave.  reader is the goroutine GetLine starts: in *)
(* "select" it waits for standard input, in "send" it posts TryUpdateOnce,  *)
(* "done" it has ended.  A reader of an earlier call that is still waiting  *)
(* posts to the same field l.laterChan, and reader stands for it too.       *)
(* obs describes the last step of the loop task: ev its kind, keyBuf the    *)
(* bytes its read returned, didRead whether it read, pre the editor before. *)

\* keys typed: "a", "e" with acute accent, newline, ^D (VEOF) and ^C
TypeKeys == {97, 233, 10, 4, 3}

Before(e) ==
    [buffer |-> e.buffer, state |-> e.state, carry |-> e.incompleteData,
     finish |-> e.finish, loopChan |-> e.loopChan, isEditing |-> e.isEditing]

Init ==
    /\ \E h \in {"nil", "finish"}, ar \in BOOLEAN :
           l = [NewEditor EXCEPT !.onInterruptHandled = h,
                                 !.alwaysRefresh = ar,
                                 !.enableBracketedPaste = TRUE]
    /\ gl = [pc |-> "idle", calls |-> 0, returns |-> 0, cause |-> "none",
             returned |-> [line |-> <<>>, err |-> "nil", cause |-> "none"]]
    /\ reader = "none"
    /\ env = [stdin |-> <<>>, closed |-> FALSE, typed |-> <<>>, signals |-> 0]
    /\ obs = [ev |-> "none", keyBuf |-> <<>>, didRead |-> FALSE,
              pre |-> Before(NewEditor)]

\* where the loop task is after a handler
AfterHandler(e) ==
    IF e.blockedOn = "panic" THEN "panic"
    ELSE IF e.blockedOn # "none" THEN "stuck"
    ELSE "select"

\* what made the loop task post to loopChan in a handler that read keyBuf
CauseOf(e, didRead, keyBuf, before) ==
    IF e.loopChan = before.loopChan THEN gl.cause
    ELSE IF didRead /\ keyBuf = <<ctrl(67)>> THEN "interruptByte"
    ELSE IF \E i \in DOMAIN e.calls : e.calls[i].fn = "finishEdit" THEN "veof"
    ELSE "line"

\* the program calls GetLine: everything up to the go statement
GetLineCall ==
    /\ gl.pc = "idle"
    /\ gl.calls < MaxCalls
    /\ l' = GetLineEnter(l, Prompt, env.stdin)
    /\ env' = [env EXCEPT !.stdin = <<>>]
    /\ reader' = "select"
    /\ gl' = [gl EXCEPT !.pc = "started", !.calls = @ + 1, !.cause = "none"]
    /\ obs' = [ev |-> "call", keyBuf |-> <<>>, didRead |-> FALSE,
               pre |-> Before(l)]

\* GetLine from the go statement to the loop: the carried input is
\* announced and signalChan is made and registered
GetLineLoop ==
    /\ gl.pc = "started"
    /\ LET e == IF l.incompleteData # <<>>
                THEN SendLater(Started(l), "TryUpdateOnce")
                ELSE Started(l) IN
       /\ l' = [e EXCEPT !.signalChan = <<>>]
       /\ gl' = [gl EXCEPT !.pc = AfterHandler(e)]
    /\ obs' = [ev |-> "loop", keyBuf |-> <<>>, didRead |-> FALSE,
               pre |-> Before(l)]
    /\ UNCHANGED <<reader, env>>

\* some call of GetLine is running or will run, to take what the terminal
\* sends
Listening ==
    \/ gl.pc \in {"started", "select", "read"}
    \/ gl.pc = "idle" /\ gl.calls < MaxCalls

\* a key is typed at the terminal
TypeKey ==
    \E k \in TypeKeys :
        /\ Listening
        /\ ~env.closed
        /\ Len(env.typed) < MaxInput
        /\ env' = [env EXCEPT !.stdin = @ \o EncodeRune(k),
                              !.typed = Append(@, k)]
        /\ UNCHANGED <<l, gl, reader, obs>>

\* standard input reaches its end
CloseStdin ==
    /\ Listening
    /\ ~env.closed
    /\ env' = [env EXCEPT !.closed = TRUE]
    /\ UNCHANGED <<l, gl, reader, obs>>

\* SIGINT is sent while signalChan is registered; the runtime drops it when
\* the channel is full
Sigint ==
    /\ gl.pc \in {"select", "read"}
    /\ env.signals < MaxSignals
    /\ env' = [env EXCEPT !.signals = @ + 1]
    /\ l' = IF Len(l.signalChan) < 1
            THEN [l EXCEPT !.signalChan = Append(@, "SIGINT")]
            ELSE l
    /\ UNCHANGED <<gl, reader, obs>>

\* unix.Select of the reader returns: standard input can be read
ReaderSelect ==
    /\ reader = "select"
    /\ gl.pc # "panic"
    /\ env.stdin # <<>> \/ env.closed
    /\ reader' = "send"
    /\ UNCHANGED <<l, gl, env, obs>>

\* the reader posts TryUpdateOnce; once GetLine has returned the channel is
\* closed, the send panics and the goroutine ends
ReaderSend ==
    /\ reader = "send"
    /\ gl.pc # "panic"
    /\ IF gl.pc = "idle"
       THEN reader' = "done" /\ l' = l
       ELSE /\ Len(l.laterChan) < 1
            /\ l' = [l EXCEPT !.laterChan = Append(@, "TryUpdateOnce")]
            /\ reader' = "select"
    /\ UNCHANGED <<gl, env, obs>>

\* tryUpdateOnce from the read on, with what the read returns
AfterRead(e, ev) ==
    LET didRead == e.incompleteData = <<>>
        keyBuf == IF didRead THEN Take(env.stdin, Min(16, Len(env.stdin)))
                  ELSE <<>> IN
    /\ l' = tryUpdateOnceEnd([e EXCEPT !.prohibitInputProcessing = FALSE],
                             keyBuf)
    /\ env' = [env EXCEPT !.stdin = Drop(@, Len(keyBuf))]
    /\ gl' = [gl EXCEPT !.pc = AfterHandler(l'),
                        !.cause = CauseOf(l', didRead, keyBuf, Before(l))]
    /\ obs' = [ev |-> ev, keyBuf |-> keyBuf, didRead |-> didRead,
               pre |-> Before(l)]

\* the loop receives from laterChan
RecvLater ==
    /\ gl.pc = "select"
    /\ l.laterChan # <<>>
    /\ LET e == [Started(l) EXCEPT !.laterChan = Tail(@)] IN
       IF l.finish
       THEN /\ l' = e
            /\ obs' = [ev |-> "dropped", keyBuf |-> <<>>, didRead |-> FALSE,
                       pre |-> Before(l)]
            /\ UNCHANGED <<gl, env>>
       ELSE \E b \in {tryUpdateOnceBegin(e)} :
            IF b.incompleteData = <<>> /\ env.stdin = <<>> /\ ~env.closed
            THEN /\ l' = [b EXCEPT !.prohibitInputProcessing = TRUE]
                 /\ gl' = [gl EXCEPT !.pc = "read"]
                 /\ obs' = [ev |-> "blocked", keyBuf |-> <<>>,
                            didRead |-> FALSE, pre |-> Before(l)]
                 /\ UNCHANGED env
            ELSE AfterRead(b, "later")
    /\ UNCHANGED reader

\* the read the loop task was blocked in returns
ReadReturns ==
    /\ gl.pc = "read"
    /\ env.stdin # <<>> \/ env.closed
    /\ AfterRead(Started(l), "read")
    /\ UNCHANGED reader

\* the loop receives SIGINT from signalChan
RecvSignal ==
    /\ gl.pc = "select"
    /\ l.signalChan # <<>>
    /\ l' = interrupted([Started(l) EXCEPT !.signalChan = Tail(@)])
    /\ gl' = [gl EXCEPT !.pc = AfterHandler(l'),
                        !.cause = IF l'.loopChan = l.loopChan THEN @
                                  ELSE "interruptSignal"]
    /\ obs' = [ev |-> "signal", keyBuf |-> <<>>, didRead |-> FALSE,
               pre |-> Before(l)]
    /\ UNCHANGED <<reader, env>>

\* the loop receives Exit from loopChan and GetLine returns
RecvExit ==
    /\ gl.pc = "select"
    /\ l.loopChan # <<>> /\ Head(l.loopChan) = "Exit"
    /\ l' = [Started(l) EXCEPT !.loopChan = Tail(@), !.finish = FALSE]
    /\ gl' = [gl EXCEPT !.pc = "idle",
                        !.returns = @ + 1,
                        !.cause = "none",
                        !.returned = [line |-> l.returnedLine,
                                      err |-> l.inputError,
                                      cause |-> gl.cause]]
    /\ obs' = [ev |-> "return", keyBuf |-> <<>>, didRead |-> FALSE,
               pre |-> Before(l)]
    /\ UNCHANGED <<reader, env>>

\* the loop receives Retry from loopChan and calls GetLine again
RecvRetry ==
    /\ gl.pc = "select"
    /\ l.loopChan # <<>> /\ Head(l.loopChan) = "Retry"
    /\ l' = GetLineEnter([l EXCEPT !.loopChan = Tail(@)], Prompt, env.stdin)
    /\ env' = [env EXCEPT !.stdin = <<>>]
    /\ reader' = "select"
    /\ gl' = [gl EXCEPT !.pc = "started", !.cause = "none"]
    /\ obs' = [ev |-> "retry", keyBuf |-> <<>>, didRead |-> FALSE,
               pre |-> Before(l)]

Next ==
    \/ GetLineCall
    \/ GetLineLoop
    \/ TypeKey
    \/ CloseStdin
    \/ Sigint
    \/ ReaderSelect
    \/ ReaderSend
    \/ RecvLater
    \/ ReadReturns
    \/ RecvSignal
    \/ RecvExit
    \/ RecvRetry

Spec == Init /\ [][Next]_vars

---------------------------------------------------------------------------
(* SpecFault: Spec and a unix.Select of the reader that fails with an      *)
(* error other than EINTR, impl.go 639-646, for a program that installs no *)
(* interrupt handler and leaves alwaysRefresh unset.                       *)

InitFault ==
    /\ Init
    /\ l.onInterruptHandled = "nil"
    /\ ~l.alwaysRefresh

\* unix.Select returns an error: the reader stores it in l.inputError
ReaderSelectError ==
    /\ reader = "select"
    /\ gl.pc # "panic"
    /\ l' = [l EXCEPT !.inputError = "EBADF"]
    /\ reader' = "sendExit"
    /\ UNCHANGED <<gl, env, obs>>

\* the reader posts Exit and ends
ReaderSendExit ==
    /\ reader = "sendExit"
    /\ gl.pc # "panic"
    /\ IF gl.pc = "idle"
       THEN UNCHANGED <<l, gl>>
       ELSE /\ Len(l.loopChan) < 1
            /\ l' = [l EXCEPT !.loopChan = Append(@, "Exit")]
            /\ gl' = [gl EXCEPT !.cause = "reader"]
    /\ reader' = "done"
    /\ UNCHANGED <<env, obs>>

NextFault ==
    \/ Next
    \/ ReaderSelectError
    \/ ReaderSendExit

SpecFault == InitFault /\ [][NextFault]_vars

---------------------------------------------------------------------------
(* Properties of GetLine.                                                  *)

\* the bytes the last handler decoded
Input == obs.pre.carry \o obs.keyBuf

\* the last step was tryUpdateOnce with a read or a carry to decode
Decoded == obs.ev \in {"later", "read"}

\* C2: starting from an empty buffer, when a sequence w of printable code
\* points bound to no key and then a newline are typed, GetLine returns
\* exactly w with a nil error.
C2_PrintableLineReturned ==
    ( /\ obs.ev = "return"
      /\ gl.calls = 1 /\ gl.returns = 1
      /\ env.signals = 0 /\ ~env.closed
      /\ env.typed # <<>>
      /\ env.typed[Len(env.typed)] = 10
      /\ \A i \in 1..(Len(env.typed) - 1) : env.typed[i] \in {97, 233} )
    => /\ gl.returned.line = EncodeRunes(Take(env.typed, Len(env.typed) - 1))
       /\ gl.returned.err = "nil"

\* the last step handled an interrupt that arrived while editing, with no
\* message to the loop pending: SIGINT, or a read of the single byte ^C
InterruptHandled ==
    /\ obs.pre.isEditing /\ ~obs.pre.finish /\ obs.pre.loopChan = <<>>
    /\ \/ obs.ev = "signal"
       \/ Decoded /\ obs.didRead /\ obs.keyBuf = <<ctrl(67)>>

\* C5: an interrupt that arrives while editing makes GetLine return no
\* error: when the interrupt handler of the program requested finish,
\* GetLine returns the buffer as it was at the interrupt; otherwise the
\* buffer is discarded and GetLine retries; for SIGINT and for a ^C byte.
C5_InterruptFinishesOrRetries ==
    InterruptHandled =>
        IF l.onInterruptHandled = "finish"
        THEN /\ l.loopChan = <<"Exit">>
             /\ l.returnedLine = EncodeRunes(obs.pre.buffer)
             /\ l.inputError = "nil"
        ELSE /\ l.loopChan = <<"Retry">>
             /\ l.buffer = <<>>

\* the last step decoded VEOF first, in the free state with an empty buffer
VeofOnEmptyBuffer ==
    /\ Decoded
    /\ ~(obs.didRead /\ obs.keyBuf = <<ctrl(67)>>)
    /\ obs.pre.state = "Free" /\ obs.pre.buffer = <<>> /\ ~obs.pre.finish
    /\ Input # <<>> /\ Head(Input) = l.termios.VEOF

\* C6: VEOF received in the free state with an empty buffer and without
\* alwaysRefresh runs finishEdit before any key binding, sets the input
\* error to ECANCELED, and the current call of GetLine returns that error;
\* with alwaysRefresh the editor does not finish.
C6_VeofOnEmptyBufferCancels ==
    /\ VeofOnEmptyBuffer =>
           IF ~l.alwaysRefresh
           THEN /\ l.calls # <<>> /\ l.calls[1].fn = "finishEdit"
                /\ l.inputError = "ECANCELED"
                /\ gl.pc = "select"
                /\ l.loopChan = <<"Exit">> /\ gl.cause = "veof"
           ELSE Input = <<l.termios.VEOF>> => ~l.finish /\ l.loopChan = <<>>
    /\ (obs.ev = "return" /\ gl.returned.cause = "veof")
           => gl.returned.err = "ECANCELED"

\* C7: a read of standard input that yields zero bytes while the carry is
\* empty sets the input error to ECANCELED and requests finish, and GetLine
\* returns that error.
C7_EmptyReadCancels ==
    (Decoded /\ obs.didRead /\ obs.keyBuf = <<>> /\ ~obs.pre.finish)
    => /\ l.inputError = "ECANCELED"
       /\ l.loopChan = <<"Exit">>

\* C8: every return of GetLine is preceded by restore: the terminal is out
\* of raw mode and, bracketed paste being enabled, its disable sequence was
\* the last one written, and enable and disable alternate.
C8_RestoreBeforeEveryReturn ==
    /\ obs.ev = "return" => ~l.rawMode /\ l.pasteMode = "l"
    /\ ~l.pasteRepeated

\* a step of the reader task
ReaderStep == reader # "none" /\ reader' # reader /\ obs' = obs

\* C9: only the loop task changes the editor: a step of the reader task
\* posts on laterChan or loopChan and leaves every other field alone.
C9_OnlyLoopTaskMutatesEditor ==
    [][ReaderStep =>
          [l' EXCEPT !.laterChan = l.laterChan, !.loopChan = l.loopChan] = l]_vars

---------------------------------------------------------------------------
(* SpecDecode: GetLine was called and the terminal sends one of a set of    *)
(* inputs, which the loop task reads in pieces of any size up to the size   *)
(* of keyBuf and decodes with tryUpdateOnce; GetLine returns when the loop  *)
(* receives the exit code.  obs.script is the input and obs.pos the number  *)
(* of its bytes read so far.  The inputs are the two end-to-end scenarios   *)
(* of bracketed paste and of Alt-b, and a CSI sequence typed between "a"    *)
(* and "b", once on the free decoder and once inside a paste.               *)

\* len(keyBuf)
KeyBufSize == 16

\* ESC [ 200 ~ and ESC [ 201 ~
PasteStart == <<27, 91, 50, 48, 48, 126>>
PasteStop == <<27, 91, 50, 48, 49, 126>>

\* parameter bytes: none, "3", "5", "200", "201", "1;5"
CsiParameterInputs ==
    {<<>>, <<51>>, <<53>>, <<50, 48, 48>>, <<50, 48, 49>>, <<49, 59, 53>>}
\* intermediate bytes: none, "$"
CsiIntermediateInputs == {<<>>, <<36>>}
\* final bytes: A, D, H, Q, Z, ~, and CR, which is no final byte
CsiFinalInputs == {65, 68, 72, 81, 90, 126, 13}

\* ESC [ parameters intermediates final
Csi(sc) == <<27, 91>> \o sc.params \o sc.inter \o <<sc.final>>

ScriptBytes(sc) ==
    CASE sc.kind = "paste" -> PasteStart \o <<88, 89, 90>> \o PasteStop \o <<10>>
      [] sc.kind = "altb" -> <<97, 98, 99, 100, 27, 98, 127, 10>>
      [] sc.kind = "free" -> <<97>> \o Csi(sc) \o <<98, 10>>
      [] sc.kind = "inpaste" ->
             <<97>> \o PasteStart \o <<120>> \o Csi(sc) \o <<121>>
                    \o PasteStop \o <<10>>

Scripts ==
    {[kind |-> k, params |-> <<>>, inter |-> <<>>, final |-> 0] :
        k \in {"paste", "altb"}}
    \cup
    {[kind |-> k, params |-> p, inter |-> i, final |-> f] :
        k \in {"free", "inpaste"}, p \in CsiParameterInputs,
        i \in CsiIntermediateInputs, f \in CsiFinalInputs}

\* the number of bytes of the script up to the end of its CSI sequence
CsiEnd(sc) ==
    (IF sc.kind = "inpaste" THEN 2 + Len(PasteStart) ELSE 1) + Len(Csi(sc))

InitDecode ==
    /\ \E bp \in BOOLEAN, ph \in {"nil", "set"} :
           l = GetLineEnter([NewEditor EXCEPT !.enableBracketedPaste = bp,
                                              !.pasteHandler = ph],
                            Prompt, <<>>)
    /\ NoLoop
    /\ \E sc \in Scripts : obs = [script |-> sc, pos |-> 0]

\* the reader task saw input and the loop task runs tryUpdateOnce, whose
\* read takes the next n bytes
DecodeRead ==
    \E n \in 1..KeyBufSize :
        /\ gl.pc = "edit"
        /\ l.loopChan = <<>>
        /\ obs.pos + n <= Len(ScriptBytes(obs.script))
        /\ l' = tryUpdateOnceEnd(
                    Started(l),
                    SubSeq(ScriptBytes(obs.script), obs.pos + 1, obs.pos + n))
        /\ obs' = [obs EXCEPT !.pos = @ + n]
        /\ gl' = [gl EXCEPT !.pc = IF l'.blockedOn = "none" THEN @
                                   ELSE AfterHandler(l')]
        /\ UNCHANGED <<reader, env>>

\* the loop receives Exit from loopChan and GetLine returns
DecodeReturn ==
    /\ gl.pc = "edit"
    /\ l.loopChan = <<"Exit">>
    /\ l' = [l EXCEPT !.loopChan = <<>>, !.finish = FALSE]
    /\ gl' = [gl EXCEPT !.pc = "idle",
                        !.returns = @ + 1,
                        !.returned = [line |-> l.returnedLine,
                                      err |-> l.inputError,
                                      cause |-> "none"]]
    /\ UNCHANGED <<reader, env, obs>>

NextDecode ==
    \/ DecodeRead
    \/ DecodeReturn

SpecDecode == InitDecode /\ [][NextDecode]_vars

\* the whole script was read
ScriptRead == obs.pos = Len(ScriptBytes(obs.script))
\* GetLine returned
Returned == gl.pc = "idle" /\ gl.returns = 1

CsiInPaste ==
    /\ obs.script.kind = "inpaste" /\ l.enableBracketedPaste
    /\ obs.script.final >= 64 /\ obs.script.final <= 126
    /\ ~(obs.script.final = 126 /\ obs.script.params = <<50, 48, 49>>
         /\ obs.script.inter = <<>>)

\* C12: in paste mode a complete CSI sequence other than the stop-paste
\* sequence 201~ performs no editing operation and is reinjected verbatim
\* as pasted text, and the decoder stays in paste mode: right after the
\* sequence the pasted text is "x" followed by the bytes of the sequence,
\* the text typed before the paste is untouched, and the state is Paste.
C12_PasteReinjectsCsi ==
    (CsiInPaste /\ obs.pos = CsiEnd(obs.script)) =>
        /\ l.blockedOn = "none"
        /\ l.state = "Paste"
        /\ IF l.pasteHandler = "nil"
           THEN l.buffer = <<97, 120>> \o Csi(obs.script)
           ELSE /\ l.buffer = <<97>>
                /\ l.pasteBuffer = <<120>> \o Csi(obs.script)

\* the CSI sequence of the script is one the decoder does not recognise: an
\* unknown final byte, or '~' with a parameter that is not 3 and, with
\* bracketed paste enabled, not 200 either
CsiUnrecognised ==
    /\ obs.script.kind = "free"
    /\ obs.script.final >= 64 /\ obs.script.final <= 126
    /\ obs.script.final \notin {65, 66, 67, 68, 70, 72, 90}
    /\ obs.script.final = 126 =>
           /\ obs.script.params # <<51>>
           /\ ~(l.enableBracketedPaste /\ obs.script.params = <<50, 48, 48>>)

\* C13: a CSI sequence the decoder does not recognise is logged and
\* skipped, with bracketed paste enabled or disabled: the editor does not
\* crash, buffer and cursor are as before the sequence, the decoder is back
\* in the free state, and the input after it is decoded normally, so that
\* "a", the sequence, "b", newline returns "ab".
C13_UnknownCsiSkipped ==
    CsiUnrecognised =>
        /\ l.blockedOn = "none"
        /\ obs.pos = CsiEnd(obs.script) =>
              /\ l.buffer = <<97>> /\ l.cursor = 1
              /\ l.state = "Free"
              /\ l.logged # <<>>
        /\ ScriptRead => (Returned \/ l.loopChan = <<"Exit">>)
        /\ Returned => gl.returned.line = <<97, 98>>

\* C18: with the default bindings, the input a b c d ESC b DEL newline
\* makes GetLine return "abd": Alt-b moves the cursor one character to the
\* left, before "d", and DEL erases the character before the cursor, "c".
C18_AltBThenBackspace ==
    obs.script.kind = "altb" =>
        /\ ScriptRead => (Returned \/ l.loopChan = <<"Exit">>)
        /\ Returned => gl.returned.line = <<97, 98, 100>> /\ gl.returned.err = "nil"

\* C18 as the specification states it: GetLine returns "abc"
C18_ReturnsAbc ==
    (obs.script.kind = "altb" /\ Returned) => gl.returned.line = <<97, 98, 99>>

\* GetLine returned from the Alt-b scenario
C18_Witness == obs.script.kind = "altb" /\ Returned /\ gl.returned.err = "nil"

---------------------------------------------------------------------------
(* The search session, internal_functions.go 208-352.  enterSearch runs a   *)
(* nested editor inside the handler of ^R: the loop task of the outer       *)
(* editor is inside searchEditor.GetLine until that returns.  The nested    *)
(* editor is l.searchEditor[1]; its bindings are listed in its calls, and   *)
(* what they do to the outer editor is applied from that list.  Each editor *)
(* draws on a row of its own.                                               *)

\* sessions entered in one program run
MaxSessions == 2

\* longest phrase typed into the search editor
MaxPhrase == 2

\* "search: ", the prompt without its colour sequences
searchPrompt == <<115, 101, 97, 114, 99, 104, 58, 32>>

\* the history of the program: "ab" and "b"
SessionHistory == <<<<97, 98>>, <<98>>>>

\* ^R presses in one session
MaxCycles == 2

\* bytes the terminal sends during a session, one per read: a, b, ^R, tab
\* and newline
SessionKeys == {97, 98, 18, 9, 10}

\* the bindings enterSearch registers on the search editor
searchBinding(fn) == [fn |-> fn, id |-> 0, ret |-> FALSE]

\* the onRefresh hook of the search editor, on the outer editor
searchOnRefresh(editor) ==
    Then(editor, LAMBDA e :
    Then(cleanup(e.searchEditor[1]), LAMBDA s :
    Then(search(e, EncodeRunes(s.buffer), FALSE, FALSE), LAMBDA r :
    Then(refreshDisplay(
             IF r[2] THEN r[1]
             ELSE [r[1] EXCEPT !.charsTouchedInTheMiddle = Len(r[1].buffer),
                               !.refreshNeeded = TRUE,
                               !.buffer = <<>>,
                               !.cursor = 0]),
         LAMBDA b :
        [b EXCEPT !.searchEditor =
                      <<[s EXCEPT !.originRow = b.originRow + 1,
                                  !.originColumn = 1,
                                  !.refreshNeeded = TRUE]>>]))))

\* NewEditor, the settings and bindings of enterSearch, and GetLine up to
\* its select; assignedKeyIndexSerial is a variable of the package
newSearchEditor(serial) ==
    Then(Initialize([NewEditor EXCEPT !.enableSignalHandling = FALSE,
                                      !.alwaysRefresh = TRUE,
                                      !.assignedKeyIndexSerial = serial]),
         LAMBDA n :
    Then(RegisterKeybinding(n, <<Key(ctrl(82))>>, searchBinding("searchCycle")),
         LAMBDA r :
    Then(RegisterKeybinding(r, <<Key(ctrl(67))>>, searchBinding("searchCancel")),
         LAMBDA c :
    Then(RegisterKeybinding(c, <<Key(ctrl(76))>>,
                            searchBinding("searchClearScreen")),
         LAMBDA k :
    Then(RegisterKeybinding(k, <<Key(9)>>, searchBinding("searchAccept")),
         LAMBDA t : GetLineEnter(t, searchPrompt, <<>>))))))

\* enterSearch up to the select of searchEditor.GetLine
enterSearchBegin(editor) ==
    Then(editor, LAMBDA e :
    IF e.isSearching THEN [e EXCEPT !.blockedOn = "panic"]
    ELSE Then(newSearchEditor(e.assignedKeyIndexSerial), LAMBDA s :
         searchOnRefresh([e EXCEPT !.isSearching = TRUE,
                                   !.searchOffset = 0,
                                   !.preSearchBuffer = e.buffer,
                                   !.preSearchCursor = e.cursor,
                                   !.isEditing = FALSE,
                                   !.assignedKeyIndexSerial =
                                       s.assignedKeyIndexSerial,
                                   !.searchEditor = <<s>>])))

\* what the bindings the search editor called do to the outer editor
RECURSIVE searchBindingsOnOuter(_, _)
searchBindingsOnOuter(e, calls) ==
    IF calls = <<>> THEN e
    ELSE LET fn == Head(calls).fn IN
         searchBindingsOnOuter(
             CASE fn = "searchCycle" ->
                      [e EXCEPT !.searchOffset = U32(@ + 1)]
               [] fn = "searchCancel" ->
                      [e EXCEPT !.resetBufferOnSearchEnd = TRUE]
               [] fn = "searchAccept" ->
                      [e EXCEPT !.resetBufferOnSearchEnd = FALSE]
               [] OTHER -> e,
             Tail(calls))

\* tryUpdateOnce of the search editor, from the read on
searchEditorUpdate(editor, keyBuf) ==
    Then(editor, LAMBDA e :
    Then(handleReadEvent(Started(e.searchEditor[1]), keyBuf), LAMBDA s :
    Then(searchBindingsOnOuter(e, s.calls), LAMBDA a :
    IF s.blockedOn # "none"
    THEN [a EXCEPT !.searchEditor = <<s>>, !.blockedOn = s.blockedOn]
    ELSE Then(searchOnRefresh(
                  [a EXCEPT !.searchEditor =
                                <<[s EXCEPT !.refreshNeeded = TRUE]>>]),
              LAMBDA b :
         Then(refreshDisplay(b.searchEditor[1]), LAMBDA d :
         Then(IF d.blockedOn = "none" /\ d.finish
              THEN reallyQuitEventLoop(d) ELSE d,
              LAMBDA q :
        [b EXCEPT !.searchEditor = <<q>>, !.blockedOn = q.blockedOn]))))))

\* enterSearch from the return of searchEditor.GetLine on
enterSearchEnd(editor, searchStringResult, err) ==
    Then([editor EXCEPT !.searchEditor = <<>>,
                        !.isSearching = FALSE,
                        !.isEditing = TRUE,
                        !.searchOffset = 0],
         LAMBDA a :
    IF err # "nil" THEN Finish([a EXCEPT !.inputError = err])
    ELSE Then(repositionCursor(a, FALSE), LAMBDA b :
         IF b.blockedOn # "none" THEN b
         ELSE IF ~b.resetBufferOnSearchEnd
                 \/ actualRenderedStringMetricsImpl(
                        DecodeRunes(searchStringResult)) = 0
         THEN endSearch([b EXCEPT !.refreshNeeded = TRUE,
                                  !.cachedPromptValid = FALSE,
                                  !.charsTouchedInTheMiddle = 1])
         ELSE Finish([b EXCEPT !.refreshNeeded = TRUE,
                               !.cachedPromptValid = FALSE,
                               !.charsTouchedInTheMiddle = 1])))

\* the return of searchEditor.GetLine, the rest of enterSearch and the rest
\* of the outer tryUpdateOnce that read ^R
searchSessionReturn(editor) ==
    Then(editor, LAMBDA e :
    Then(enterSearchEnd(e, e.searchEditor[1].returnedLine,
                        e.searchEditor[1].inputError),
         LAMBDA a :
    IF a.blockedOn # "none" THEN a
    ELSE Then(refreshDisplay(a), LAMBDA b :
        IF b.blockedOn = "none" /\ b.finish
        THEN reallyQuitEventLoop(b) ELSE b)))

NoExit == [how |-> "none", result |-> <<>>, entry |-> <<>>]

InitSession ==
    /\ l = GetLineEnter([NewEditor EXCEPT !.history = SessionHistory],
                        Prompt, <<>>)
    /\ NoLoop
    /\ obs = [sessions |-> 0, key |-> 0, exit |-> NoExit]

\* the outer editor reads a letter
SessionType ==
    /\ gl.pc = "edit"
    /\ l.loopChan = <<>>
    /\ l.searchEditor = <<>>
    /\ Len(l.buffer) < MaxPhrase
    /\ l' = tryUpdateOnceEnd(Started(l), <<120>>)
    /\ gl' = [gl EXCEPT !.pc = IF l'.blockedOn = "none" THEN @
                               ELSE AfterHandler(l')]
    /\ obs' = [obs EXCEPT !.exit = NoExit]
    /\ UNCHANGED <<reader, env>>

\* the outer editor reads ^R, bound to enterSearch
SessionEnter ==
    /\ gl.pc = "edit"
    /\ l.loopChan = <<>>
    /\ l.searchEditor = <<>>
    /\ obs.sessions < MaxSessions
    /\ l' = enterSearchBegin(Started(l))
    /\ gl' = [gl EXCEPT !.pc = IF l'.blockedOn = "none" THEN @
                               ELSE AfterHandler(l')]
    /\ obs' = [sessions |-> obs.sessions + 1, key |-> 0, exit |-> NoExit]
    /\ UNCHANGED <<reader, env>>

\* the search editor reads a byte
SessionKey ==
    \E b \in SessionKeys :
        /\ gl.pc = "edit"
        /\ l.searchEditor # <<>>
        /\ l.searchEditor[1].loopChan = <<>>
        /\ b \in {97, 98} => Len(l.searchEditor[1].buffer) < MaxPhrase
        /\ b = 18 => l.searchOffset \in 0..(MaxCycles - 1)
        /\ l' = searchEditorUpdate(l, <<b>>)
        /\ gl' = [gl EXCEPT !.pc = IF l'.blockedOn = "none" THEN @
                                   ELSE AfterHandler(l')]
        /\ obs' = [obs EXCEPT !.key = b]
        /\ UNCHANGED <<reader, env>>

\* searchEditor.GetLine receives Exit and returns; enterSearch returns
SessionReturn ==
    /\ gl.pc = "edit"
    /\ l.searchEditor # <<>>
    /\ l.searchEditor[1].loopChan = <<"Exit">>
    /\ l' = searchSessionReturn(l)
    /\ gl' = [gl EXCEPT !.pc = IF l'.blockedOn = "none" THEN @
                               ELSE AfterHandler(l')]
    /\ obs' = [obs EXCEPT !.exit =
                  [how |-> IF obs.key = 10 THEN "newline"
                           ELSE IF obs.key = 9 THEN "tab" ELSE "other",
                   result |-> l.searchEditor[1].returnedLine,
                   entry |-> l.buffer]]
    /\ UNCHANGED <<reader, env>>

\* the program calls GetLine again
SessionGetLine ==
    /\ gl.pc = "idle"
    /\ gl.calls < MaxCalls
    /\ l' = GetLineEnter(l, Prompt, <<>>)
    /\ gl' = [gl EXCEPT !.pc = "edit", !.calls = @ + 1]
    /\ obs' = [obs EXCEPT !.exit = NoExit]
    /\ UNCHANGED <<reader, env>>

NextSession ==
    \/ SessionType
    \/ SessionEnter
    \/ SessionKey
    \/ SessionReturn
    \/ SessionGetLine
    \/ DecodeReturn

SpecSession == InitSession /\ [][NextSession]_vars

\* C14: in every search session, an exit by newline with a non-empty phrase
\* finishes the outer editor with its buffer, the matched entry, as the line
\* GetLine returns, and an exit with an empty result ends the search and
\* does not finish the outer editor.
C14_SearchExitCommits ==
    /\ (obs.exit.how = "newline" /\ obs.exit.result # <<>>) =>
           /\ l.returnedLine = EncodeRunes(obs.exit.entry)
           /\ \/ l.loopChan = <<"Exit">>
              \/ gl.pc = "idle" /\ gl.returned.line = l.returnedLine
    /\ (obs.exit.how # "none" /\ obs.exit.result = <<>>) =>
           /\ ~l.finish
           /\ l.loopChan = <<>>
           /\ ~l.isSearching

---------------------------------------------------------------------------
(* History search on its own: the program adds entries to the history, the  *)
(* search offset is stepped as the ^R binding of enterSearch steps it, and  *)
(* search is called as the hook of the search editor (contains) and         *)
(* searchBackwards (prefix, empty phrase allowed) call it.                  *)

\* longest history
MaxHist == 2

\* largest search offset
MaxOffset == 1

\* entries of the history: "a", "ba", and e-acute followed by "a"
HistoryEntries == {<<97>>, <<98, 97>>, <<195, 169, 97>>}

\* phrases searched for: "", "a", "b" and e-acute
SearchPhrases == {<<>>, <<97>>, <<98>>, <<195, 169>>}

InitSearch ==
    /\ l = GetLineEnter(NewEditor, Prompt, <<>>)
    /\ NoLoop
    /\ obs = [op |-> "GetLine"]

\* the program calls AddToHistory
DoAddToHistory ==
    \E line \in HistoryEntries :
        /\ Len(l.history) < MaxHist
        /\ l' = AddToHistory(l, line)
        /\ obs' = [op |-> "AddToHistory"]
        /\ UNCHANGED <<gl, reader, env>>

\* the program calls GetLine again: the history cursor moves to the end
DoSearchGetLine ==
    /\ l.historyCursor # Len(l.history)
    /\ l' = GetLineEnter(l, Prompt, <<>>)
    /\ obs' = [op |-> "GetLine"]
    /\ UNCHANGED <<gl, reader, env>>

\* editor.searchOffset++
DoSearchOffset ==
    /\ l.searchOffset < MaxOffset
    /\ l' = [l EXCEPT !.searchOffset = U32(@ + 1)]
    /\ obs' = [op |-> "searchOffset"]
    /\ UNCHANGED <<gl, reader, env>>

\* a handler calls search, and the display is refreshed after it
DoSearch ==
    \E phrase \in SearchPhrases, allowEmpty \in BOOLEAN, fromBeginning \in BOOLEAN :
        /\ l' = refreshDisplay(
                    search(Started(l), phrase, allowEmpty, fromBeginning)[1])
        /\ obs' = [op |-> "search",
                   pre |-> [history |-> l.history,
                            historyCursor |-> l.historyCursor,
                            searchOffset |-> l.searchOffset,
                            buffer |-> l.buffer,
                            cursor |-> l.cursor],
                   phrase |-> phrase,
                   allowEmpty |-> allowEmpty,
                   fromBeginning |-> fromBeginning,
                   found |-> search(Started(l), phrase, allowEmpty,
                                    fromBeginning)[2]]
        /\ UNCHANGED <<gl, reader, env>>

NextSearch ==
    \/ DoAddToHistory
    \/ DoSearchGetLine
    \/ DoSearchOffset
    \/ DoSearch

SpecSearch == InitSearch /\ [][NextSearch]_vars

\* the entries below the history cursor that match the phrase of the last
\* search, as 1-based positions
SearchMatches ==
    {i \in 1..obs.pre.historyCursor :
        IF obs.fromBeginning THEN HasPrefix(obs.pre.history[i], obs.phrase)
        ELSE Contains(obs.pre.history[i], obs.phrase)}

\* the match with exactly searchOffset matches more recent than it
SearchSelected ==
    {i \in SearchMatches :
        Cardinality({j \in SearchMatches : j > i}) = obs.pre.searchOffset}

\* C15: search with offset k selects the (k+1)-th most recent entry below
\* the history cursor that contains the phrase (starts with it when
\* fromBeginning): the buffer becomes that entry and true is returned; with
\* fewer matches, or an empty phrase that is not allowed, false is returned
\* and buffer and cursor are left as they were.
C15_SearchSelectsKth ==
    obs.op = "search" =>
        IF (obs.allowEmpty \/ obs.phrase # <<>>) /\ SearchSelected # {}
        THEN /\ obs.found
             /\ \A i \in SearchSelected :
                    /\ l.buffer = DecodeRunes(obs.pre.history[i])
                    /\ EncodeRunes(l.buffer) = obs.pre.history[i]
        ELSE /\ ~obs.found
             /\ l.buffer = obs.pre.buffer
             /\ l.cursor = obs.pre.cursor

\* a search with offset 1 found the second most recent of two matches
C15_Witness ==
    /\ obs.op = "search"
    /\ obs.found
    /\ obs.pre.searchOffset = 1
    /\ Cardinality(SearchMatches) >= 2
    /\ l.buffer # obs.pre.buffer

---------------------------------------------------------------------------
(* Tab completion on its own: the program registers a completion handler   *)
(* that returns one list whatever the buffer, the terminal sends letters    *)
(* and tabs, one byte per read.                                             *)

\* longest line typed before and between tabs
MaxTyped == 3

\* tabs pressed in one run
MaxTabs == 3

Suggestion(text, trivia, invariantOffset, allow) ==
    [EmptyCompletion EXCEPT !.Text = text,
                            !.TrailingTrivia = trivia,
                            !.InvariantOffset = invariantOffset,
                            !.AllowCommitWithoutListing = allow]

\* "exit"
ExitText == <<101, 120, 105, 116>>

\* the lists the handler returns: "exit" with invariant offset 4, with 3,
\* and not to be committed without listing; e-acute; "ex" followed by a
\* space as trivia; a list of two, "ex" and "ey"; the same not to be
\* committed without listing; and a list of three
CompletionLists ==
    {<<Suggestion(ExitText, <<>>, 4, TRUE)>>,
     <<Suggestion(ExitText, <<>>, 3, TRUE)>>,
     <<Suggestion(ExitText, <<>>, 3, FALSE)>>,
     <<Suggestion(<<195, 169>>, <<>>, 0, TRUE)>>,
     <<Suggestion(<<101, 120>>, <<32>>, 1, TRUE)>>,
     <<Suggestion(<<101, 120>>, <<>>, 1, TRUE),
       Suggestion(<<101, 121>>, <<>>, 1, TRUE)>>,
     <<Suggestion(<<101, 120>>, <<>>, 1, FALSE),
       Suggestion(<<101, 121>>, <<>>, 1, FALSE)>>,
     <<Suggestion(<<101, 120>>, <<>>, 0, TRUE),
       Suggestion(<<101, 121>>, <<>>, 0, TRUE),
       Suggestion(<<105>>, <<>>, 0, TRUE)>>}

\* letters typed: e, x, i
TabLetters == {101, 120, 105}

InitTab ==
    /\ \E cs \in CompletionLists, spare \in {0, 1} :
           l = GetLineEnter([NewEditor EXCEPT !.tabCompletionHandler = <<cs>>,
                                              !.runeSpare = spare],
                            Prompt, <<>>)
    /\ NoLoop
    /\ obs = [op |-> "GetLine", tabs |-> 0]

\* the loop task reads a letter
TabType ==
    \E b \in TabLetters :
        /\ gl.pc = "edit"
        /\ Len(l.buffer) < MaxTyped
        /\ l' = tryUpdateOnceEnd(Started(l), <<b>>)
        /\ gl' = [gl EXCEPT !.pc = IF l'.blockedOn = "none" THEN @
                                   ELSE AfterHandler(l')]
        /\ obs' = [op |-> "type", tabs |-> obs.tabs]
        /\ UNCHANGED <<reader, env>>

\* the loop task reads a tab; obs.result is what attemptCompletion returns
\* on a first tab, obs.run counts the tabs pressed since the last letter and
\* obs.mode is the mode this press runs attemptCompletion in
TabPress ==
    /\ gl.pc = "edit"
    /\ obs.tabs < MaxTabs
    /\ l' = tryUpdateOnceEnd(Started(l), <<9>>)
    /\ gl' = [gl EXCEPT !.pc = IF l'.blockedOn = "none" THEN @
                               ELSE AfterHandler(l')]
    /\ obs' = [op |-> "tab",
               tabs |-> obs.tabs + 1,
               run |-> IF obs.op = "tab" THEN obs.run + 1 ELSE 1,
               mode |-> tabCompletionMode(l.timesTabPressed + 1),
               pre |-> [buffer |-> l.buffer,
                        cursor |-> l.cursor,
                        timesTabPressed |-> l.timesTabPressed],
               result |-> attemptCompletion(
                              setStartIndex(
                                  setSuggestions(l.suggestionManager,
                                                 l.tabCompletionHandler[1],
                                                 l.runeSpare), 0),
                              "CompletePrefix", l.cursor)[2]]
    /\ UNCHANGED <<reader, env>>

NextTab ==
    \/ TabType
    \/ TabPress

SpecTab == InitTab /\ [][NextTab]_vars

\* the list the handler returns
TabList == l.tabCompletionHandler[1]

\* the pager is on the screen
PagerShown ==
    \/ l.suggestionDisplay.isShowingSuggestions
    \/ l.suggestionDisplay.pages # <<>>

\* the line with text put in at the cursor
InsertedAt(buffer, cursor, text) ==
    Take(buffer, cursor) \o text \o Drop(buffer, cursor)

\* a first tab on a list of one suggestion that may be committed without
\* listing and whose invariant offset is within its text
SingleCommitTab ==
    /\ obs.op = "tab"
    /\ obs.pre.timesTabPressed = 0
    /\ Len(TabList) = 1
    /\ TabList[1].AllowCommitWithoutListing
    /\ TabList[1].InvariantOffset <= Len(DecodeRunes(TabList[1].Text))

\* C16: a tab in complete-prefix mode on a list of exactly one suggestion
\* with AllowCommitWithoutListing inserts the rest of the suggestion after
\* its invariant offset, and its trailing trivia, once; the mode returned
\* is don't-complete, the tab counter is 0 again and no pager is shown.
C16_SingleSuggestionCommits ==
    SingleCommitTab =>
        /\ l.blockedOn = "none"
        /\ l.buffer = InsertedAt(obs.pre.buffer, obs.pre.cursor,
                          Drop(DecodeRunes(TabList[1].Text),
                               TabList[1].InvariantOffset)
                              \o DecodeRunes(TabList[1].TrailingTrivia))
        /\ obs.result.newCompletionMode = "DontComplete"
        /\ l.timesTabPressed = 0
        /\ ~PagerShown

\* e x i and a first tab, the handler returning "exit" with invariant
\* offset 4
ExitScenario ==
    /\ obs.op = "tab"
    /\ obs.tabs = 1
    /\ obs.pre.buffer = <<101, 120, 105>>
    /\ obs.pre.cursor = 3
    /\ TabList = <<Suggestion(ExitText, <<>>, 4, TRUE)>>

\* C17, as the code has it: with the completion "exit", invariant offset 4,
\* e x i and tab insert nothing, since no code point of the text lies after
\* the invariant offset: the buffer stays "exi", the tab counter is reset
\* and no pager is shown.
C17_ExitInsertsNothing ==
    ExitScenario =>
        /\ l.blockedOn = "none"
        /\ l.buffer = <<101, 120, 105>>
        /\ l.cursor = 3
        /\ l.timesTabPressed = 0
        /\ ~PagerShown

\* C17 as stated: the buffer becomes "exit"
C17_ExitCompletes ==
    ExitScenario =>
        /\ l.buffer = ExitText
        /\ l.timesTabPressed = 0
        /\ ~PagerShown

\* the scenario of C17 has run
C17_Witness == ExitScenario /\ l.blockedOn = "none" /\ gl.pc = "edit"

---------------------------------------------------------------------------
(* SetLine and Line on strings of bytes: the program sets the line to any   *)
(* string, valid UTF-8 or not, between the letters the terminal sends.      *)

\* longest string given to SetLine, in bytes
MaxBytes == 2

\* bytes of the strings: a, and the two bytes of e-acute, each of which is
\* ill-formed without the other
LineBytes == {97, 195, 169}

LineStrings == UNION {[1..n -> LineBytes] : n \in 0..MaxBytes}

InitLine ==
    /\ l = GetLineEnter(NewEditor, Prompt, <<>>)
    /\ NoLoop
    /\ obs = [op |-> "GetLine"]

\* the loop task reads a letter
LineType ==
    /\ gl.pc = "edit"
    /\ Len(l.buffer) < MaxBytes
    /\ l' = tryUpdateOnceEnd(Started(l), <<97>>)
    /\ gl' = [gl EXCEPT !.pc = IF l'.blockedOn = "none" THEN @
                               ELSE AfterHandler(l')]
    /\ obs' = [op |-> "type"]
    /\ UNCHANGED <<reader, env>>

\* a handler of the program calls SetLine(line) and then Line(), and
\* tryUpdateOnce refreshes the display after it
LineSetLine ==
    \E line \in LineStrings :
        /\ gl.pc = "edit"
        /\ l' = refreshDisplay(SetLine(Started(l), line))
        /\ gl' = [gl EXCEPT !.pc = IF l'.blockedOn = "none" THEN @
                                   ELSE AfterHandler(l')]
        /\ obs' = [op |-> "SetLine",
                   line |-> line,
                   prior |-> l.buffer,
                   got |-> Line(SetLine(l, line))]
        /\ UNCHANGED <<reader, env>>

NextLine ==
    \/ LineType
    \/ LineSetLine

SpecLine == InitLine /\ [][NextLine]_vars

\* well-formed UTF-8 as RFC 3629 lists it, byte by byte
RECURSIVE WellFormed(_)
WellFormed(s) ==
    LET n == Len(s)
        tail(i) == s[i] \in 128..191 IN
    \/ s = <<>>
    \/ s[1] \in 0..127 /\ WellFormed(Drop(s, 1))
    \/ /\ n >= 2 /\ s[1] \in 194..223 /\ tail(2)
       /\ WellFormed(Drop(s, 2))
    \/ /\ n >= 3 /\ tail(3)
       /\ \/ s[1] = 224 /\ s[2] \in 160..191
          \/ s[1] \in (225..236) \cup {238, 239} /\ tail(2)
          \/ s[1] = 237 /\ s[2] \in 128..159
       /\ WellFormed(Drop(s, 3))
    \/ /\ n >= 4 /\ tail(3) /\ tail(4)
       /\ \/ s[1] = 240 /\ s[2] \in 144..191
          \/ s[1] \in 241..243 /\ tail(2)
          \/ s[1] = 244 /\ s[2] \in 128..143
       /\ WellFormed(Drop(s, 4))

\* C19, for the strings the buffer can hold: after SetLine(s) on any state
\* of the editor, Line() returns s when s is well-formed UTF-8.
C19_SetLineRoundTripUtf8 ==
    (obs.op = "SetLine" /\ WellFormed(obs.line)) => obs.got = obs.line

\* C19 as stated: for every string s, SetLine(s) then Line() returns s
C19_SetLineRoundTrip ==
    obs.op = "SetLine" => obs.got = obs.line

\* SetLine was given e-acute on a line that held something else
C19_Witness ==
    /\ obs.op = "SetLine"
    /\ obs.line = <<195, 169>>
    /\ obs.prior # <<>>
    /\ l.buffer = <<233>>
    /\ obs.got = <<195, 169>>

---------------------------------------------------------------------------
(* Styles on their own: the program calls Stylize and StripStyles on a line *)
(* that holds e-acute and "a".                                              *)

\* largest offset of a span
MaxSpan == 1

\* a style with a mask is applied while currentMasks has fewer entries
MaxMasks == 2

BoldStyle == [EmptyStyle EXCEPT !.Bold = TRUE]

\* the styles given to Stylize: none, a mask alone, bold, and bold with a
\* mask
StyleInputs ==
    {EmptyStyle,
     [EmptyStyle EXCEPT !.Mask = "r"],
     BoldStyle,
     [BoldStyle EXCEPT !.Mask = "r"]}

\* rune-mode spans, and the byte-mode span of the first letter
SpanInputs ==
    {Span(s, e, "Rune") : s \in 0..MaxSpan, e \in 0..MaxSpan}
        \cup {Span(0, 2, "Byte")}

InitStyle ==
    /\ l = SetLine(GetLineEnter(NewEditor, Prompt, <<>>), <<195, 169, 97>>)
    /\ NoLoop
    /\ obs = [op |-> "SetLine"]

DoStylize ==
    \E span \in SpanInputs, style \in StyleInputs :
        /\ style.Mask # "nil" => Len(l.currentMasks) < MaxMasks
        /\ l' = Stylize(l, span, style)
        /\ obs' = [op |-> "Stylize", span |-> span, style |-> style]
        /\ UNCHANGED <<gl, reader, env>>

DoStripStyles ==
    /\ l' = StripStyles(l)
    /\ obs' = [op |-> "StripStyles"]
    /\ UNCHANGED <<gl, reader, env>>

NextStyle ==
    \/ DoStylize
    \/ DoStripStyles

SpecStyle == InitStyle /\ [][NextStyle]_vars

\* the last call was Stylize with a rune-mode span that is not empty and a
\* style that is not empty
StylizedRuneSpan ==
    /\ obs.op = "Stylize"
    /\ obs.span.Mode = "Rune"
    /\ obs.span.Start # obs.span.End
    /\ ~IsEmpty(obs.style)

\* spansStarting[start][end] and spansEnding[end][start] are both style
SpanStored(start, end, style) ==
    /\ start \in DOMAIN l.currentSpans.spansStarting
    /\ end \in DOMAIN l.currentSpans.spansStarting[start]
    /\ l.currentSpans.spansStarting[start][end] = style
    /\ end \in DOMAIN l.currentSpans.spansEnding
    /\ start \in DOMAIN l.currentSpans.spansEnding[end]
    /\ l.currentSpans.spansEnding[end][start] = style

\* every (start, end) of spansStarting is in spansEnding with the same style
SpansMirrored ==
    \A start \in DOMAIN l.currentSpans.spansStarting :
        \A end \in DOMAIN l.currentSpans.spansStarting[start] :
            SpanStored(start, end, l.currentSpans.spansStarting[start][end])

StripEmpties ==
    obs.op = "StripStyles" =>
        /\ l.currentSpans.spansStarting = <<>>
        /\ l.currentSpans.spansEnding = <<>>

\* C20, as the code has it: after Stylize with a rune-mode span (start, end),
\* start # end, and a non-empty style s, spansStarting[start][end] and
\* spansEnding[end][start] are both s without its mask, which goes to
\* currentMasks; after any calls of Stylize and StripStyles every entry of
\* spansStarting is mirrored in spansEnding with the same style; StripStyles
\* empties both maps.
C20_SpansMirroredMaskTaken ==
    /\ StylizedRuneSpan =>
           SpanStored(obs.span.Start, obs.span.End,
                      [obs.style EXCEPT !.Mask = "nil"])
    /\ SpansMirrored
    /\ StripEmpties

\* C20 as stated: both maps hold s itself
C20_SpansMirrored ==
    /\ StylizedRuneSpan => SpanStored(obs.span.Start, obs.span.End, obs.style)
    /\ SpansMirrored
    /\ StripEmpties

\* a bold style with a mask was applied to a rune-mode span on top of
\* another span
C20_Witness ==
    /\ StylizedRuneSpan
    /\ obs.style.Mask # "nil"
    /\ l.currentMasks # <<>>
    /\ \E start \in DOMAIN l.currentSpans.spansStarting :
           start # obs.span.Start

---------------------------------------------------------------------------
(* Masks on their own: the program calls Stylize with masks on ranges of   *)
(* the line "abcd", and StripStyles.                                        *)

\* largest end of a masked range
MaxMaskEnd == 3

\* a mask is applied while currentMasks has fewer entries
MaxMaskEntries == 5

\* the masks given to Stylize, each on a bold style: a style that has a mask
\* and nothing else is empty to Stylize
MaskInputs == {"r", "s"}

\* the ranges masked: start < end
MaskSpans ==
    {Span(s, e, "Rune") : s \in 0..MaxMaskEnd, e \in 0..MaxMaskEnd} \
        {sp \in {Span(s, e, "Rune") : s \in 0..MaxMaskEnd, e \in 0..MaxMaskEnd} :
            sp.Start >= sp.End}

InitMask ==
    /\ l = SetLine(GetLineEnter(NewEditor, Prompt, <<>>), <<97, 98, 99, 100>>)
    /\ NoLoop
    /\ obs = [op |-> "SetLine"]

DoMaskStylize ==
    \E span \in MaskSpans, mask \in MaskInputs :
        /\ Len(l.currentMasks) < MaxMaskEntries
        /\ l' = Stylize(l, span, [BoldStyle EXCEPT !.Mask = mask])
        /\ obs' = [op |-> "Stylize", span |-> span, mask |-> mask,
                   before |-> l.currentMasks]
        /\ UNCHANGED <<gl, reader, env>>

DoMaskStripStyles ==
    /\ l' = StripStyles(l)
    /\ obs' = [op |-> "StripStyles"]
    /\ UNCHANGED <<gl, reader, env>>

NextMask ==
    \/ DoMaskStylize
    \/ DoMaskStripStyles

SpecMask == InitMask /\ [][NextMask]_vars

\* currentMasks is sorted by start
MasksSorted ==
    \A i \in 1..(Len(l.currentMasks) - 1) :
        l.currentMasks[i].start <= l.currentMasks[i + 1].start

\* C21: after any calls of Stylize with masks on overlapping, nested or
\* disjoint ranges and of StripStyles, currentMasks is sorted by start and
\* every entry with a mask is followed by an entry without one before the
\* next entry with a mask.
C21_MasksSortedAlternate ==
    /\ MasksSorted
    /\ \A i \in 1..Len(l.currentMasks) :
           l.currentMasks[i].mask # "nil" =>
               /\ i < Len(l.currentMasks)
               /\ l.currentMasks[i + 1].mask = "nil"


---------------------------------------------------------------------------
(* Erasing at the two ends of the line, under SpecRefresh: the operations  *)
(* decoded from one read run one after the other with no refresh between.  *)

\* this step is the operation name, run on an editor that is not searching
EraseStep(name) ==
    /\ obs'.op = name
    /\ obs'.ops = obs.ops + 1
    /\ ~l.isSearching

\* this step rings the bell and leaves the line as it is
BellAndNoChange ==
    /\ l'.bell
    /\ l'.buffer = l.buffer
    /\ l'.cursor = l.cursor
    /\ l'.charsTouchedInTheMiddle = l.charsTouchedInTheMiddle

\* C22: eraseCharacterBackwards with the cursor at 0 and
\* eraseCharacterForwards with the cursor at the end of the buffer each ring
\* the bell and leave buffer, cursor and charsTouchedInTheMiddle as they
\* were.
C22_EraseAtEdgeRingsBell ==
    [][/\ (EraseStep("eraseCharacterBackwards") /\ l.cursor = 0)
           => BellAndNoChange
       /\ (EraseStep("eraseCharacterForwards") /\ l.cursor = Len(l.buffer))
           => BellAndNoChange]_vars

\* eraseCharacterBackwards has rung the bell at the start of a line it did
\* not empty, right after an operation that touched the line
C22_Witness ==
    /\ obs.op = "eraseCharacterBackwards"
    /\ obs.ops > 1
    /\ l.bell
    /\ l.cursor = 0
    /\ l.buffer # <<>>
    /\ l.charsTouchedInTheMiddle > 0


---------------------------------------------------------------------------
(* The history file, impl.go SaveHistory and LoadHistory.  env.file is the *)
(* file at the path the program gives both: whether it exists, and its    *)
(* bytes.                                                                   *)

\* entries of the history in one behaviour
MaxEntries == 2

\* length of an entry in bytes
MaxEntryLen == 2

\* bytes of the entries: "a", carriage return, newline
EntryBytes == {97, 13, 10}

EntryStrings == UNION {[1..n -> EntryBytes] : n \in 0..MaxEntryLen}

\* bufio.dropCR
dropCR(data) ==
    IF data # <<>> /\ data[Len(data)] = 13 THEN Take(data, Len(data) - 1)
    ELSE data

\* the tokens scanner.Scan finds in data with bufio.ScanLines, the split
\* function of bufio.NewScanner: a line ends at "\n", loses one trailing
\* "\r", and the last line needs no "\n"
RECURSIVE ScanLines(_)
ScanLines(data) ==
    IF data = <<>> THEN <<>>
    ELSE LET ends == {i \in 1..Len(data) : data[i] = 10} IN
         IF ends = {} THEN <<dropCR(data)>>
         ELSE LET i == CHOOSE i \in ends : \A j \in ends : i <= j IN
              <<dropCR(Take(data, i - 1))>> \o ScanLines(Drop(data, i))

RECURSIVE AddAllToHistory(_, _)
AddAllToHistory(e, lines) ==
    IF lines = <<>> THEN e
    ELSE AddAllToHistory(AddToHistory(e, Head(lines)), Tail(lines))

\* lineEditor.LoadHistory: <<the editor it leaves, the error it returns>>
LoadHistory(e, file) ==
    IF ~file.exists THEN <<e, "ENOENT">>
    ELSE <<AddAllToHistory(e, ScanLines(file.bytes)), "nil">>

\* lineEditor.SaveHistory: the bytes of the file it leaves
RECURSIVE SaveHistory(_)
SaveHistory(history) ==
    IF history = <<>> THEN <<>>
    ELSE Head(history) \o <<10>> \o SaveHistory(Tail(history))

InitHistory ==
    /\ l = NewEditor
    /\ gl = [pc |-> "idle", calls |-> 0, returns |-> 0, cause |-> "none",
             returned |-> [line |-> <<>>, err |-> "nil", cause |-> "none"]]
    /\ reader = "none"
    /\ env = [stdin |-> <<>>, closed |-> FALSE, typed |-> <<>>, signals |-> 0,
              file |-> [exists |-> FALSE, bytes |-> <<>>]]
    /\ obs = [op |-> "NewEditor", saved |-> <<>>, err |-> "nil"]

DoHistoryAdd ==
    \E line \in EntryStrings :
        /\ Len(l.history) < MaxEntries
        /\ l' = AddToHistory(l, line)
        /\ obs' = [obs EXCEPT !.op = "AddToHistory"]
        /\ UNCHANGED <<gl, reader, env>>

DoSaveHistory ==
    /\ env' = [env EXCEPT !.file = [exists |-> TRUE,
                                     bytes |-> SaveHistory(l.history)]]
    /\ obs' = [op |-> "SaveHistory", saved |-> l.history, err |-> "nil"]
    /\ UNCHANGED <<l, gl, reader>>

\* LoadHistory on a new editor
DoLoadHistory ==
    /\ l' = LoadHistory(NewEditor, env.file)[1]
    /\ obs' = [obs EXCEPT !.op = "LoadHistory",
                          !.err = LoadHistory(NewEditor, env.file)[2]]
    /\ UNCHANGED <<gl, reader, env>>

NextHistory ==
    \/ DoHistoryAdd
    \/ DoSaveHistory
    \/ DoLoadHistory

SpecHistory == InitHistory /\ [][NextHistory]_vars

\* the new editor has loaded the file that SaveHistory wrote with line as
\* the last entry of the history
LoadedAfterSave(line) ==
    /\ obs.op = "LoadHistory"
    /\ obs.saved # <<>>
    /\ obs.saved[Len(obs.saved)] = line

\* C23: for every entry e without a newline in it, the empty entry and the
\* entries that end in a carriage return among them, AddToHistory(e),
\* SaveHistory(p) and LoadHistory(p) on a new editor leave e as the last
\* entry of the history.
C23_HistoryRoundTrip ==
    \A line \in EntryStrings :
        (LoadedAfterSave(line) /\ ~Contains(line, <<10>>)) =>
            /\ obs.err = "nil"
            /\ l.history # <<>>
            /\ l.history[Len(l.history)] = line


---------------------------------------------------------------------------
(* Reads that fail with an error other than EINTR: the read of vtDSR when  *)
(* GetLine asks for the cursor position, the read of handleReadEvent, and   *)
(* the select of the reader.  The program disables signal handling, has no *)
(* interrupt handler and leaves alwaysRefresh unset.  Each place fails with *)
(* an error of its own, and one read at most fails while an error is       *)
(* stored.                                                                  *)

\* the errors of the three places
VtDSRError == "EAGAIN"
DecoderError == "EIO"
ReadErrors == {VtDSRError, DecoderError, "EBADF"}

\* GetLine up to the go statement when the unix.Read of vtDSR fails: vtDSR
\* stores the error, calls Finish and returns the error, setOrigin(true)
\* does the same and leaves the origin as Reset set it
GetLineEnterReadError(e, prompt, err) ==
    Then([Initialize(e) EXCEPT !.isEditing = TRUE,
                               !.calls = <<>>,
                               !.bell = FALSE,
                               !.tty = [cells |-> <<>>, col |-> 1]],
         LAMBDA a :
    Then(IF a.enableBracketedPaste THEN WritePasteMode(a, "h") ELSE a,
         LAMBDA b :
    Then(Finish([StripStyles(Reset(SetPrompt(b, prompt))) EXCEPT
                     !.inputError = err,
                     !.historyCursor = Len(b.history)]),
         LAMBDA c :
             [refreshDisplay(c) EXCEPT !.loopChan = <<>>,
                                       !.laterChan = <<>>,
                                       !.blockedOn = "none"])))

\* handleReadEvent when unix.Read returns an error other than EINTR
handleReadEventError(e, err) ==
    Finish([Log(e, "Error reading from stdin") EXCEPT !.inputError = err])

\* tryUpdateOnce from a read that fails
tryUpdateOnceEndError(e, err) ==
    Then(refreshDisplay(handleReadEventError(e, err)),
         LAMBDA b : IF b.blockedOn = "none" /\ b.finish
                    THEN reallyQuitEventLoop(b)
                    ELSE b)

InitReadFault ==
    /\ l = [NewEditor EXCEPT !.enableBracketedPaste = TRUE]
    /\ gl = [pc |-> "idle", calls |-> 0, returns |-> 0, cause |-> "none",
             returned |-> [line |-> <<>>, err |-> "nil", cause |-> "none"]]
    /\ reader = "none"
    /\ env = [stdin |-> <<>>, closed |-> FALSE, typed |-> <<>>, signals |-> 0]
    /\ obs = [ev |-> "none", keyBuf |-> <<>>, didRead |-> FALSE,
              pre |-> Before(NewEditor)]

\* the program calls GetLine and the read of vtDSR fails
GetLineCallReadError ==
    /\ gl.pc = "idle"
    /\ gl.calls < MaxCalls
    /\ l' = GetLineEnterReadError(l, Prompt, VtDSRError)
    /\ reader' = "select"
    /\ gl' = [gl EXCEPT !.pc = "started", !.calls = @ + 1, !.cause = "none"]
    /\ obs' = [ev |-> "callError", keyBuf |-> <<>>, didRead |-> FALSE,
               pre |-> Before(l)]
    /\ UNCHANGED env

\* the loop receives TryUpdateOnce and the read of handleReadEvent fails
RecvLaterReadError ==
    /\ gl.pc = "select"
    /\ l.laterChan # <<>>
    /\ ~l.finish
    /\ l.incompleteData = <<>>
    /\ l.inputError = "nil"
    /\ l' = tryUpdateOnceEndError(
                tryUpdateOnceBegin([Started(l) EXCEPT !.laterChan = Tail(@)]),
                DecoderError)
    /\ gl' = [gl EXCEPT !.pc = AfterHandler(l'), !.cause = "readError"]
    /\ obs' = [ev |-> "readError", keyBuf |-> <<>>, didRead |-> TRUE,
               pre |-> Before(l)]
    /\ UNCHANGED <<reader, env>>

\* the select of the reader fails while no error is stored
ReaderSelectErrorOnce ==
    /\ gl.pc \in {"started", "select", "read"}
    /\ l.inputError = "nil"
    /\ ReaderSelectError

\* the program calls GetLine once
GetLineCallOnce == gl.calls = 0 /\ GetLineCall
GetLineCallOnceReadError == gl.calls = 0 /\ GetLineCallReadError

\* "a" or newline is typed
TypeLetterOrNewline ==
    \E k \in {97, 10} :
        /\ Listening
        /\ Len(env.typed) < MaxInput
        /\ env' = [env EXCEPT !.stdin = @ \o EncodeRune(k),
                              !.typed = Append(@, k)]
        /\ UNCHANGED <<l, gl, reader, obs>>

\* the steps of the loop task but the return of GetLine
LoopTaskStep ==
    \/ GetLineLoop
    \/ RecvLater
    \/ RecvLaterReadError
    \/ ReadReturns

\* the steps of the reader
ReaderTaskStep ==
    \/ ReaderSelect
    \/ ReaderSend
    \/ ReaderSelectErrorOnce
    \/ ReaderSendExit

NextReadFault ==
    \/ GetLineCallOnce
    \/ GetLineCallOnceReadError
    \/ TypeLetterOrNewline
    \/ LoopTaskStep
    \/ ReaderTaskStep
    \/ RecvExit

\* the loop task and the reader run when they can, and the select of the
\* loop, which takes one of its ready channels at random, takes loopChan
\* when it stays ready
SpecReadFault ==
    /\ InitReadFault
    /\ [][NextReadFault]_vars
    /\ WF_vars(LoopTaskStep)
    /\ WF_vars(ReaderTaskStep)
    /\ WF_vars(RecvExit)

\* a read has failed with err in the call of GetLine that is running
ReadFailed(err) == gl.pc # "idle" /\ l.inputError = err

\* C24: whenever a read on standard input fails with an error other than
\* EINTR, in the read of the decoder, in the cursor position query or in
\* the wait of the reader, the error is stored, the end of the edit is
\* requested, and the running call of GetLine returns that error: once the
\* error is stored in a running call, that call returns it.
C24_ReadErrorReturned ==
    \A err \in ReadErrors :
        ReadFailed(err) ~> (gl.pc = "idle" /\ gl.returned.err = err)



---------------------------------------------------------------------------
(* What a refresh leaves in the drawn state, impl.go.  The program types,   *)
(* moves the cursor, erases, styles spans and strips them between the       *)
(* refreshes of SpecSpans, with alwaysRefresh off.                          *)

\* ends of the spans given to Stylize
MaxSpanEnd == 3

\* spans of code points with Start < End
DrawnSpanInputs ==
    {sp \in {Span(s, e, "Rune") : s \in 0..MaxSpanEnd, e \in 0..MaxSpanEnd} :
        sp.Start < sp.End}

InitSpans ==
    /\ l = GetLineEnter(NewEditor, Prompt, <<>>)
    /\ NoLoop
    /\ obs = [op |-> "GetLine", ops |-> 0, batch |-> MaxOps,
              refreshes |-> 0, path |-> "none"]

DoSpanStylize ==
    \E span \in DrawnSpanInputs :
        EditStep("Stylize", Stylize(Started(l), span, BoldStyle))

DoSpanStripStyles == EditStep("StripStyles", StripStyles(Started(l)))

\* the refresh at the end of tryUpdateOnce, with the branch it takes
DoSpanRefresh ==
    /\ l.cursor <= Len(l.buffer)
    /\ obs.ops > 0
    /\ obs.refreshes < MaxRefreshes + 1
    /\ l' = refreshDisplay(Started(l))
    /\ obs' = [obs EXCEPT !.op = "refreshDisplay", !.ops = 0,
                          !.refreshes = @ + 1,
                          !.path = refreshPath(Started(l))]
    /\ UNCHANGED <<gl, reader, env>>

NextSpans ==
    \/ DoInsertChar
    \/ DoCursorLeftCharacter
    \/ DoEraseCharacterBackwards
    \/ DoSpanStylize
    \/ DoSpanStripStyles
    \/ DoSpanRefresh

SpecSpans == InitSpans /\ [][NextSpans]_vars

\* the refresh went through the tail redraw or the full reflow
RedrawCompleted ==
    /\ obs.op = "refreshDisplay"
    /\ obs.path \in {"tail", "reflow"}
    /\ l.blockedOn = "none"

\* C25: after a refresh through the incremental tail redraw or the full
\* reflow, drawnEndOfLineOffset is len(buffer), drawnCursor is cursor,
\* drawnSpans is currentSpans, charsTouchedInTheMiddle is 0, refreshNeeded
\* is false and cachedPromptValid is true
C25_RefreshDrawnState ==
    RedrawCompleted =>
        /\ l.drawnEndOfLineOffset = Len(l.buffer)
        /\ l.drawnCursor = l.cursor
        /\ DrawnSpans(l) = l.currentSpans
        /\ l.charsTouchedInTheMiddle = 0
        /\ ~l.refreshNeeded
        /\ l.cachedPromptValid

\* the same without drawnSpans
C25_RefreshDrawnStateButSpans ==
    RedrawCompleted =>
        /\ l.drawnEndOfLineOffset = Len(l.buffer)
        /\ l.drawnCursor = l.cursor
        /\ l.charsTouchedInTheMiddle = 0
        /\ ~l.refreshNeeded
        /\ l.cachedPromptValid

\* drawnSpans is currentSpans after the full reflow
C25_ReflowDrawsSpans ==
    (RedrawCompleted /\ obs.path = "reflow") => DrawnSpans(l) = l.currentSpans

---------------------------------------------------------------------------
(* Operations that change code points already drawn, impl.go and            *)
(* internal_functions.go.  SpecTouch runs up to MaxOps operations between   *)
(* two refreshes with alwaysRefresh off, and remembers whether one of them  *)
(* changed a position of the buffer it found.                               *)

\* the step from buffer a to buffer b alters a position of a
AltersCodePoint(a, b) ==
    \E i \in 1..Len(a) : i > Len(b) \/ b[i] # a[i]

InitTouch ==
    /\ l = GetLineEnter(NewEditor, Prompt, <<>>)
    /\ NoLoop
    /\ obs = [op |-> "GetLine", ops |-> 0, batch |-> MaxOps,
              refreshes |-> 0, path |-> "none", altered |-> FALSE,
              touched |-> FALSE]

\* one operation; touched tells whether it raised the counter
TouchStep(name, e) ==
    /\ l.cursor <= Len(l.buffer)
    /\ obs.ops < obs.batch
    /\ l' = e
    /\ Len(l'.buffer) <= MaxLen
    /\ obs' = [obs EXCEPT
                  !.op = name,
                  !.ops = @ + 1,
                  !.altered = @ \/ AltersCodePoint(l.buffer, e.buffer),
                  !.touched = e.charsTouchedInTheMiddle
                                  > l.charsTouchedInTheMiddle]
    /\ UNCHANGED <<gl, reader, env>>

TouchInsertChar ==
    \E ch \in EditChars : TouchStep("InsertChar", InsertChar(Started(l), ch))
TouchCursorLeftCharacter ==
    TouchStep("cursorLeftCharacter", cursorLeftCharacter(Started(l)))
TouchEraseCharacterBackwards ==
    TouchStep("eraseCharacterBackwards", eraseCharacterBackwards(Started(l)))
TouchEraseCharacterForwards ==
    TouchStep("eraseCharacterForwards", eraseCharacterForwards(Started(l)))
TouchTransposeCharacters ==
    TouchStep("transposeCharacters", transposeCharacters(Started(l)))
TouchUppercaseWord == TouchStep("uppercaseWord", uppercaseWord(Started(l)))
TouchCapitalizeWord == TouchStep("capitalizeWord", capitalizeWord(Started(l)))

\* the refresh at the end of tryUpdateOnce, with the branch it takes
TouchRefresh ==
    /\ l.cursor <= Len(l.buffer)
    /\ obs.ops > 0
    /\ obs.refreshes < MaxRefreshes
    /\ l' = refreshDisplay(Started(l))
    /\ obs' = [obs EXCEPT !.op = "refreshDisplay", !.ops = 0,
                          !.refreshes = @ + 1,
                          !.path = refreshPath(Started(l)),
                          !.altered = FALSE,
                          !.touched = FALSE]
    /\ UNCHANGED <<gl, reader, env>>

NextTouch ==
    \/ TouchInsertChar
    \/ TouchCursorLeftCharacter
    \/ TouchEraseCharacterBackwards
    \/ TouchEraseCharacterForwards
    \/ TouchTransposeCharacters
    \/ TouchUppercaseWord
    \/ TouchCapitalizeWord
    \/ TouchRefresh

SpecTouch == InitTouch /\ [][NextTouch]_vars

\* an operation that altered a code point of the buffer it found raised
\* charsTouchedInTheMiddle
AlteringStepTouches ==
    (obs'.op # "refreshDisplay" /\ AltersCodePoint(l.buffer, l'.buffer))
        => obs'.touched

\* a refresh after such an operation does not take the tail redraw
AlteredRefreshReflows ==
    (obs'.op = "refreshDisplay" /\ obs.altered)
        => obs'.path # "tail"

\* C26: every operation that alters the code point at a buffer position
\* below len increments charsTouchedInTheMiddle, and the next refresh after
\* such an operation never takes the incremental tail-redraw path
C26_AlteringOpsForceReflow ==
    [][AlteringStepTouches /\ AlteredRefreshReflows]_vars

CaseChanges == {"uppercaseWord", "capitalizeWord"}

\* the same for the operations other than the case changes
C26_ButCaseChange ==
    [][obs'.op \notin CaseChanges => AlteringStepTouches]_vars

\* a refresh that finds the counter raised does not take the tail redraw
C26_TouchedRefreshReflows ==
    [][(obs'.op = "refreshDisplay" /\ l.charsTouchedInTheMiddle > 0)
           => obs'.path # "tail"]_vars

---------------------------------------------------------------------------
(* The modes of successive tabs, impl.go and the suggestion manager.       *)

\* the press is the n-th tab in a row on a list of two or more suggestions
TabInARow(n) ==
    /\ obs.op = "tab"
    /\ obs.run = n
    /\ Len(TabList) >= 2
    /\ l.blockedOn = "none"

---------------------------------------------------------------------------
(* The suggestion manager on its own: a list is installed in a new manager *)
(* and the selection is moved with next and previous.                      *)

\* suggestions in a list
MaxList == 3
\* code points in the text of a suggestion
MaxText == 2
\* calls of next and previous on one list
MaxMoves == 4

\* code points of the texts: e, and e with acute accent (two bytes)
TextRunes == {101, 233}

\* the texts, as UTF-8
SuggestionTexts ==
    {EncodeRunes(rs) : rs \in UNION {[1..n -> TextRunes] : n \in 0..MaxText}}

\* lists of up to MaxList suggestions
SuggestionLists ==
    UNION {[1..n -> {Suggestion(t, <<>>, 0, TRUE) : t \in SuggestionTexts}] :
              n \in 0..MaxList}

\* a new manager, and the list the completion handler is going to return
InitSuggest ==
    /\ l = NewEditor
    /\ NoLoop
    /\ \E list \in SuggestionLists :
           obs = [op |-> "new", moves |-> 0, before |-> 0, list |-> list]

\* the list is installed
DoSetSuggestions ==
    /\ obs.op = "new"
    /\ l' = [l EXCEPT !.suggestionManager = setSuggestions(@, obs.list, 0)]
    /\ obs' = [obs EXCEPT !.op = "setSuggestions"]
    /\ UNCHANGED <<gl, reader, env>>

MoveStep(name, m) ==
    /\ obs.op # "new"
    /\ obs.moves < MaxMoves
    /\ l' = [l EXCEPT !.suggestionManager = m]
    /\ obs' = [obs EXCEPT
                  !.op = name,
                  !.moves = @ + 1,
                  !.before = l.suggestionManager.nextSuggestionIndex]
    /\ UNCHANGED <<gl, reader, env>>

DoNext == MoveStep("next", next(l.suggestionManager))
DoPrevious == MoveStep("previous", previous(l.suggestionManager))

NextSuggest ==
    \/ DoSetSuggestions
    \/ DoNext
    \/ DoPrevious

SpecSuggest == InitSuggest /\ [][NextSuggest]_vars

\* the size of the list and the selection index
ListSize == Len(l.suggestionManager.suggestions)
Selection == l.suggestionManager.nextSuggestionIndex

\* the selection is within the list, and 0 for the empty list
SelectionInRange ==
    IF ListSize > 0 THEN Selection \in 0..(ListSize - 1) ELSE Selection = 0

\* next and previous move the selection by one, modulo the size
MovedByOne ==
    /\ obs.op = "next" /\ ListSize > 0
           => Selection = (obs.before + 1) % ListSize
    /\ obs.op = "previous" /\ ListSize > 0
           => Selection = (obs.before - 1) % ListSize

\* C28: after any sequence of next() and previous() calls on a list of
\* size n the selection index is in [0, n) when n > 0 and is 0 when n = 0;
\* next() maps i to (i+1) mod n and previous() maps i to (i-1) mod n
C28_SelectionCycles == SelectionInRange /\ MovedByOne

\* the same for the lists that are not empty
C28_NonEmptyCycles == ListSize > 0 => (SelectionInRange /\ MovedByOne)

\* next() alone keeps the selection of the empty list at 0
C28_EmptyNextStaysZero ==
    (ListSize = 0 /\ obs.op = "next" /\ obs.before = 0) => Selection = 0

RECURSIVE SharedFrom(_, _)
\* the number of leading code points all of the texts share, from k on
SharedFrom(texts, k) ==
    IF \A i \in DOMAIN texts :
           Len(texts[i]) > k /\ texts[i][k + 1] = texts[1][k + 1]
    THEN SharedFrom(texts, k + 1)
    ELSE k

\* the texts of the list as code points
ListTexts ==
    [i \in DOMAIN l.suggestionManager.suggestions |->
        DecodeRunes(l.suggestionManager.suggestions[i].Text)]

LargestCommon == l.suggestionManager.largestCommonSuggestionPrefixLength

\* C29: setSuggestions sets the largest common prefix length to the number
\* of leading code points shared by all entries (0 for no entries, the
\* code-point length of the entry for a single one), which never exceeds
\* the code-point length of any entry
C29_LargestCommonPrefix ==
    obs.op # "new" =>
    /\ LargestCommon = IF ListSize = 0 THEN 0 ELSE SharedFrom(ListTexts, 0)
    /\ \A i \in DOMAIN ListTexts : LargestCommon <= Len(ListTexts[i])

\* the same for every list but the one of a single suggestion
C29_ButSingle == ListSize # 1 => C29_LargestCommonPrefix

\* a single suggestion: the byte length of its text
C29_SingleByteLength ==
    ListSize = 1 => LargestCommon = Len(l.suggestionManager.suggestions[1].Text)

---------------------------------------------------------------------------
(* The carry buffer of the decoder, impl.go.  The terminal sends the UTF-8  *)
(* of a few code points that are not control characters; every handler of  *)
(* SpecCarry either reads the next bytes, when incompleteData is empty, or  *)
(* works on what incompleteData holds.                                     *)

\* code points sent
MaxRunes == 3
\* bytes one read returns
MaxRead == 3

\* a, e with acute accent (two bytes) and the euro sign (three bytes)
CarryRunes == {97, 233, 8364}

CarryInputs == UNION {[1..n -> CarryRunes] : n \in 0..MaxRunes}

InitCarry ==
    /\ l = GetLineEnter(NewEditor, Prompt, <<>>)
    /\ NoLoop
    /\ \E runes \in CarryInputs : obs = [runes |-> runes, pos |-> 0,
                                          op |-> "GetLine"]

\* tryUpdateOnce with a read of the next n bytes
CarryRead ==
    \E n \in 1..MaxRead :
        /\ l.blockedOn = "none"
        /\ l.incompleteData = <<>>
        /\ obs.pos + n <= ByteLen(obs.runes)
        /\ l' = tryUpdateOnceEnd(
                    [Started(l) EXCEPT !.laterChan = <<>>],
                    SubSeq(EncodeRunes(obs.runes), obs.pos + 1, obs.pos + n))
        /\ obs' = [obs EXCEPT !.pos = @ + n, !.op = "read"]
        /\ UNCHANGED <<gl, reader, env>>

\* tryUpdateOnce for the event posted on laterChan: incompleteData is not
\* empty and nothing is read
CarryLater ==
    /\ l.blockedOn = "none"
    /\ l.incompleteData # <<>>
    /\ l.laterChan # <<>>
    /\ l' = tryUpdateOnceEnd([Started(l) EXCEPT !.laterChan = Tail(@)], <<>>)
    /\ obs' = [obs EXCEPT !.op = "later"]
    /\ UNCHANGED <<gl, reader, env>>

NextCarry ==
    \/ CarryRead
    \/ CarryLater

SpecCarry == InitCarry /\ [][NextCarry]_vars

\* the bytes read so far
CarryBytesRead == Take(EncodeRunes(obs.runes), obs.pos)

\* the code points dispatched are those whose bytes were all read, in
\* order and once each, and incompleteData holds the bytes read after them
DispatchedOnceCarryRest ==
    \E k \in 0..Len(obs.runes) :
        /\ l.buffer = Take(obs.runes, k)
        /\ EncodeRunes(Take(obs.runes, k)) \o l.incompleteData = CarryBytesRead
        /\ k < Len(obs.runes)
               => Len(l.incompleteData) < Len(EncodeRune(obs.runes[k + 1]))

\* C30: for every sequence of code points without control bytes and every
\* way its UTF-8 is split across reads, the decoder dispatches exactly that
\* sequence, each code point once; the bytes of an incomplete code point
\* stay in the carry buffer until it is complete and the bytes of a decoded
\* code point leave the carry buffer
C30_SplitReadsDecoded ==
    /\ DispatchedOnceCarryRest
    /\ (obs.pos = ByteLen(obs.runes) /\ l.incompleteData = <<>>)
           => l.buffer = obs.runes

\* the same for code points of one byte
C30_OneByteDecoded ==
    (\A i \in DOMAIN obs.runes : obs.runes[i] < 128) => C30_SplitReadsDecoded

---------------------------------------------------------------------------
(* Word motion, internal_functions.go.  SpecWord starts on a line of        *)
(* letters, spaces and hyphens, or on "foo bar", with the cursor at 0, and *)
(* moves the cursor by words and by characters.                             *)

\* code points of the lines of SpecWord
MaxWordLine == 4

\* a, a space and a hyphen
WordRunes == {97, 32, 45}

\* "foo bar"
FooBar == <<102, 111, 111, 32, 98, 97, 114>>

WordLines ==
    UNION {[1..n -> WordRunes] : n \in 0..MaxWordLine} \cup {FooBar}

InitWord ==
    /\ \E line \in WordLines :
           l = SetLine(GetLineEnter(NewEditor, Prompt, <<>>), EncodeRunes(line))
    /\ NoLoop
    /\ obs = [op |-> "SetLine", before |-> 0]

WordStep(name, e) ==
    /\ l' = e
    /\ obs' = [op |-> name, before |-> l.cursor]
    /\ UNCHANGED <<gl, reader, env>>

WordLeft == WordStep("cursorLeftWord", cursorLeftWord(Started(l)))
WordRight == WordStep("cursorRightWord", cursorRightWord(Started(l)))
WordCharacterLeft ==
    /\ l.cursor > 0
    /\ WordStep("cursorLeftCharacter", cursorLeftCharacter(Started(l)))
WordCharacterRight ==
    /\ l.cursor < Len(l.buffer)
    /\ WordStep("cursorRightCharacter", cursorRightCharacter(Started(l)))

NextWord ==
    \/ WordLeft
    \/ WordRight
    \/ WordCharacterLeft
    \/ WordCharacterRight

SpecWord == InitWord /\ [][NextWord]_vars

RECURSIVE StartOfRun(_, _)
\* the cursor moved left from c while the code point before it is
\* alphanumeric
StartOfRun(buffer, c) ==
    IF c > 0 /\ isAlphaNumeric(buffer[c]) THEN StartOfRun(buffer, c - 1)
    ELSE c

\* [s, e) is a maximal run of alphanumeric code points of the buffer
IsRun(buffer, s, e) ==
    /\ s < e
    /\ \A i \in (s + 1)..e : isAlphaNumeric(buffer[i])
    /\ s = 0 \/ ~isAlphaNumeric(buffer[s])
    /\ e = Len(buffer) \/ ~isAlphaNumeric(buffer[e + 1])

\* the move from a to b passed a whole run and its far end
JumpedOverRun(buffer, a, b) ==
    \E s \in 0..Len(buffer), e \in 0..Len(buffer) :
        /\ IsRun(buffer, s, e)
        /\ \/ b < s /\ e <= a
           \/ a <= s /\ e < b

\* C31: cursor-left-word from a cursor > 0 moves left across the boundary
\* and then on while the code point before the cursor is alphanumeric, so
\* it stops at the start of the preceding alphanumeric run (index 4 from
\* the end of "foo bar"); word motion never jumps over a whole
\* alphanumeric run in one step
C31_LeftWordStopsAtRunStart ==
    /\ (obs.op = "cursorLeftWord" /\ obs.before > 0)
           => l.cursor = StartOfRun(l.buffer, obs.before - 1)
    /\ (obs.op = "cursorLeftWord" /\ l.buffer = FooBar /\ obs.before = 7)
           => l.cursor = 4
    /\ obs.op \in {"cursorLeftWord", "cursorRightWord"}
           => ~JumpedOverRun(l.buffer, obs.before, l.cursor)

\* cursor-right-word alone jumps over no run
C31_RightWordJumpsNoRun ==
    obs.op = "cursorRightWord" => ~JumpedOverRun(l.buffer, obs.before, l.cursor)

\* where the code leaves the cursor from the end of "foo bar"
C31_FooBarLandsAtSix ==
    (obs.op = "cursorLeftWord" /\ l.buffer = FooBar /\ obs.before = 7)
        => l.cursor = 6

---------------------------------------------------------------------------
(* Ctrl-C in the search session, internal_functions.go.  SpecCancel is the  *)
(* session of SpecSession with one more input: the terminal sends ^C to the *)
(* search editor, by itself or after a letter in the same read.             *)

\* what the search editor reads: ^C, and "a" followed by ^C
CancelReads == {<<ctrl(67)>>, <<97, ctrl(67)>>}

\* the search editor reads ^C
SessionCancel ==
    \E keyBuf \in CancelReads :
        /\ gl.pc = "edit"
        /\ l.searchEditor # <<>>
        /\ l.searchEditor[1].loopChan = <<>>
        /\ Len(l.searchEditor[1].buffer) < MaxPhrase
        /\ l' = searchEditorUpdate(l, keyBuf)
        /\ gl' = [gl EXCEPT !.pc = IF l'.blockedOn = "none" THEN @
                                   ELSE AfterHandler(l')]
        /\ obs' = [obs EXCEPT !.key = ctrl(67)]
        /\ UNCHANGED <<reader, env>>

NextCancel ==
    \/ SessionType
    \/ SessionEnter
    \/ SessionKey
    \/ SessionCancel
    \/ SessionReturn
    \/ SessionGetLine
    \/ DecodeReturn

SpecCancel == InitSession /\ [][NextCancel]_vars

\* the last key of the session was ^C
Cancelled == obs.sessions > 0 /\ obs.key = ctrl(67)

\* C32: Ctrl-C during a search ends the search without finishing the outer
\* editor: the nested editor exits, the outer buffer and cursor are those
\* snapshotted when the search was entered, isSearching is false, isEditing
\* true, and the outer GetLine keeps running
C32_CtrlCEndsSearch ==
    Cancelled =>
        /\ l.blockedOn = "none"
        /\ gl.pc = "edit"
        /\ \/ l.searchEditor # <<>> /\ l.searchEditor[1].loopChan = <<"Exit">>
           \/ /\ l.searchEditor = <<>>
              /\ l.buffer = l.preSearchBuffer
              /\ l.cursor = l.preSearchCursor
              /\ ~l.isSearching
              /\ l.isEditing
              /\ ~l.finish
              /\ l.loopChan = <<>>

\* what the code does: the loop task is left in a send on the full loopChan
\* of the search editor
C32_CtrlCBlocksLoop ==
    Cancelled => (l.blockedOn = "loopChan" /\ l.searchEditor # <<>>)

---------------------------------------------------------------------------
(* SpecReplay: input that follows the finishing newline in one read.  The  *)
(* terminal sends a burst of code points in one piece while the first      *)
(* GetLine call waits: some code points, the newline, and more code        *)
(* points.  The second call is then made, and single keys are typed into   *)
(* it.  The loop, the reader and the channels are those of Spec.           *)

\* keys typed one at a time into the second call
MaxReplayKeys == 2

ReplayRunes == {97, 233}

\* the bursts: at most one code point, the newline, one or two code points
ReplayBursts ==
    {pre \o <<10>> \o post :
        pre \in {<<>>} \cup {<<r>> : r \in ReplayRunes},
        post \in {<<r>> : r \in ReplayRunes}
                 \cup {<<r, q>> : r \in ReplayRunes, q \in ReplayRunes}}

\* the burst arrives while the first call waits for input
ReplayBurst ==
    \E burst \in ReplayBursts :
        /\ gl.calls = 1
        /\ gl.pc \in {"select", "read"}
        /\ env.typed = <<>>
        /\ env' = [env EXCEPT !.stdin = @ \o EncodeRunes(burst),
                              !.typed = burst]
        /\ UNCHANGED <<l, gl, reader, obs>>

\* the code points of a burst before its newline
RECURSIVE BeforeNewline(_)
BeforeNewline(rs) ==
    IF rs = <<>> \/ Head(rs) = 10 THEN <<>>
    ELSE <<Head(rs)>> \o BeforeNewline(Tail(rs))

\* the code points typed after the first newline
AfterNewline(rs) == Drop(rs, Len(BeforeNewline(rs)) + 1)

\* a key is typed into the second call
ReplayKey ==
    /\ gl.calls = 2
    /\ gl.pc \in {"started", "select", "read"}
    /\ env.typed # <<>>
    /\ Len(AfterNewline(env.typed)) < 2 + MaxReplayKeys
    /\ env' = [env EXCEPT !.stdin = @ \o EncodeRune(97),
                          !.typed = Append(@, 97)]
    /\ UNCHANGED <<l, gl, reader, obs>>

NextReplay ==
    \/ GetLineCall
    \/ GetLineLoop
    \/ ReplayBurst
    \/ ReplayKey
    \/ ReaderSelect
    \/ ReaderSend
    \/ RecvLater
    \/ ReadReturns
    \/ RecvExit

SpecReplay == Init /\ [][NextReplay]_vars

\* the first call has returned and the second has not been made
FirstReturned == gl.calls = 1 /\ gl.returns = 1 /\ gl.pc = "idle"

\* the second call has taken everything that was typed
SecondDrained ==
    /\ gl.calls = 2
    /\ gl.returns = 1
    /\ gl.pc \in {"select", "read"}
    /\ l.incompleteData = <<>>
    /\ env.stdin = <<>>
    /\ l.laterChan = <<>>
    /\ reader = "select"

(* C33: handleReadEvent reads standard input only when the carry buffer is *)
(* empty; when the first call returns, the carry buffer holds exactly the  *)
(* code points that followed the newline in the read, in order; and the    *)
(* second call processes them first, so that its line is those code points *)
(* followed by the keys typed later.                                       *)
C33_CarryReplayed ==
    /\ obs.didRead => obs.pre.carry = <<>>
    /\ FirstReturned =>
           /\ gl.returned.line = EncodeRunes(BeforeNewline(env.typed))
           /\ l.incompleteData = EncodeRunes(AfterNewline(env.typed))
    /\ SecondDrained => l.buffer = AfterNewline(env.typed)

\* the same for a burst of one-byte code points
C33_AsciiCarryReplayed ==
    (\A i \in DOMAIN env.typed : env.typed[i] < 128) => C33_CarryReplayed

\* no read of handleReadEvent is made while the carry buffer holds input
C33_NoReadWhileCarry == obs.didRead => obs.pre.carry = <<>>

---------------------------------------------------------------------------
(* C34, under SpecKeys: what a registration does to the other sequences.   *)

\* keys is bound to callback cb in the tables of the matcher
BoundTo(keys, cb) ==
    \E i \in DOMAIN l.keyCallbackMachine.keyAssignments :
        /\ l.keyCallbackMachine.keyAssignments[i] = keys
        /\ i \in DOMAIN l.keyCallbackMachine.keyCallbacks
        /\ l.keyCallbackMachine.keyCallbacks[i] = cb

\* a registered sequence that is the beginning of keys and shorter
HasRegisteredPrefix(keys) ==
    \E q \in obs.reg : q[1] # keys /\ IsPrefix(q[1], keys)

\* two registered sequences of equal length that end in the same key
SameLengthSameLastKey ==
    \E p \in obs.reg, q \in obs.reg :
        /\ p[1] # q[1]
        /\ Len(p[1]) = Len(q[1])
        /\ p[1][Len(p[1])] = q[1][Len(q[1])]

\* C34: after the registrations every registered sequence is still bound
\* to the callback of its own last registration, and pressing it from the
\* idle matcher (no shorter registered sequence begins it) invokes that
\* callback.
C34_RegistrationKeepsOtherSequences ==
    \A p \in obs.reg :
        /\ BoundTo(p[1], p[2])
        /\ (Pressed(p[1]) /\ ~HasRegisteredPrefix(p[1])) =>
               CallsOf(LastPresses(Len(p[1]))) = <<p[2]>>

\* the same when no two registered sequences have the same length and the
\* same last key
C34_KeptButSameLastKey ==
    ~SameLengthSameLastKey => C34_RegistrationKeepsOtherSequences

\* a registration of a sequence as long as a registered one and with the
\* same last key takes its place: the sequence registered first is not in
\* the tables
C34_SameLastKeyReplaces ==
    \A p \in obs.reg, q \in obs.reg :
        (/\ p[1] # q[1]
         /\ Len(p[1]) = Len(q[1])
         /\ p[1][Len(p[1])] = q[1][Len(q[1])]
         /\ p[2].id < q[2].id) =>
            /\ ~BoundTo(p[1], p[2])
            /\ BoundTo(q[1], q[2])

---------------------------------------------------------------------------
(* C35, under Spec: the posts the loop task makes on its own channels.    *)

\* the loop task is blocked in a send on a channel only it receives from
LoopBlockedInSend == gl.pc = "stuck"

\* C35: under every interleaving with the reader task, a post the loop
\* task makes on laterChan or loopChan from tryUpdateOnce (handleReadEvent,
\* reallyQuitEventLoop) completes: after the handler the loop task is not
\* blocked in a send.
C35_LoopPostsComplete == obs.ev \in {"later", "read"} => ~LoopBlockedInSend

\* the loop task blocks in a send only on a channel that is full: on
\* laterChan with input left in the carry buffer, in handleReadEvent or in
\* the post GetLine makes before the loop, and on loopChan when it already
\* holds a message
C35_BlockedOnFullChannel ==
    LoopBlockedInSend =>
        \/ /\ l.blockedOn = "laterChan"
           /\ Len(l.laterChan) = 1
           /\ l.incompleteData # <<>>
           /\ obs.ev \in {"later", "read", "loop"}
        \/ /\ l.blockedOn = "loopChan"
           /\ Len(l.loopChan) = 1

\* nothing receives from the channel a blocked loop task sends on: the
\* loop task stays where it is and the channel stays full
C35_BlockedStaysBlocked ==
    [][LoopBlockedInSend =>
           /\ gl' = gl
           /\ l'.blockedOn = l.blockedOn
           /\ l.blockedOn = "laterChan" => l'.laterChan = l.laterChan
           /\ l.blockedOn = "loopChan" => l'.loopChan = l.loopChan
           /\ l'.buffer = l.buffer]_vars

---------------------------------------------------------------------------
(* C36, under SpecReadFault: the end of a call of GetLine whose finish     *)
(* flag is set.                                                            *)

\* the finish flag is set in a running call of GetLine
FinishSet == gl.pc # "idle" /\ l.finish

\* GetLine has returned
CallReturned == gl.pc = "idle" /\ gl.returns = gl.calls

\* input events keep being posted: laterChan holds a message again and again
InputKeepsBeingPosted == []<>(l.laterChan # <<>>)

\* C36: as long as input events keep being posted, a call of GetLine whose
\* finish flag is set eventually returns.
C36_FinishedCallReturns == InputKeepsBeingPosted => (FinishSet ~> CallReturned)

\* finish is set and Exit is in loopChan with the loop in its select: the
\* call returns
C36_ExitPostedReturns ==
    (FinishSet /\ gl.pc = "select" /\ l.loopChan = <<"Exit">>) ~> CallReturned

\* finish set and loopChan empty with the loop task in or before its
\* select: every later event is dropped and the call does not return
C36_FinishWithoutExitStays ==
    [][(FinishSet /\ gl.pc \in {"started", "select"} /\ l.loopChan = <<>>)
           => (FinishSet' /\ gl'.pc \in {"started", "select"}
                          /\ l'.loopChan = <<>>)]_vars

---------------------------------------------------------------------------
(* SpecInline: the history search from the line being edited.  The        *)
(* obs record keeps the key of the last read, whether its search failed,  *)
(* its phrase and the offset before it.                                   *)
(* program has added entries to the history and called GetLine; the       *)
(* terminal sends ^P and ^N (searchBackwards, searchForwards), letters,   *)
(* arrow left and right, ^H and Delete, one key per read.                 *)

\* entries in the history
MaxInlineHist == 2

\* longest line
MaxInlineLen == 2

\* failed searches in a row that are followed
MaxMisses == 3

\* the history entries: "a" and "ba"
InlineEntries == {<<97>>, <<98, 97>>}

InlineHistories ==
    {<<>>} \cup {<<x>> : x \in InlineEntries}
           \cup {<<x, y>> : x \in InlineEntries, y \in InlineEntries}

SearchBackwardsKey == <<ctrl(80)>>
SearchForwardsKey == <<ctrl(78)>>

\* what a read returns: ^P, ^N, "a", "b", arrow left, arrow right, ^H and
\* Delete
InlineKeys ==
    {SearchBackwardsKey, SearchForwardsKey, <<97>>, <<98>>,
     <<27, 91, 68>>, <<27, 91, 67>>, <<ctrl(72)>>, <<27, 91, 51, 126>>}

InitInline ==
    /\ \E h \in InlineHistories :
           /\ Len(h) <= MaxInlineHist
           /\ l = GetLineEnter([NewEditor EXCEPT !.history = h], Prompt, <<>>)
    /\ NoLoop
    /\ obs = [key |-> <<>>, failed |-> FALSE, found |-> FALSE,
              phrase |-> <<>>, preOffset |-> 0]

\* the search phrase of the line: the buffer up to the inline search cursor
InlinePhrase(e) == Take(e.buffer, Min(e.inlineSearchCursor, Len(e.buffer)))

\* one key arrives and tryUpdateOnce handles the read
InlineKey ==
    \E k \in InlineKeys :
        LET searched == k \in {SearchBackwardsKey, SearchForwardsKey} IN
        /\ l' = tryUpdateOnceEnd(Started(l), k)
        /\ Len(l'.buffer) <= MaxInlineLen
        /\ l'.searchOffset >= 0 - MaxMisses
        /\ l'.searchOffset <= Len(l.history) + 1
        /\ obs' = [key |-> k,
                   failed |-> searched /\ l'.bell,
                   found |-> searched /\ ~l'.bell,
                   phrase |-> InlinePhrase(l),
                   preOffset |-> l.searchOffset]
        /\ UNCHANGED <<gl, reader, env>>

NextInline == InlineKey

SpecInline == InitInline /\ [][NextInline]_vars

\* the history has an entry that starts with the phrase
PhraseMatches(phrase) ==
    \E i \in 1..l.historyCursor : HasPrefix(l.history[i], EncodeRunes(phrase))

\* C37: after any sequence of searches backwards and forwards, cursor
\* motions and erasures the search offset has not wrapped below zero: it
\* is between 0 and the number of history entries.
C37_SearchOffsetInRange ==
    /\ 0 <= l.searchOffset
    /\ l.searchOffset <= Len(l.history)

\* the offset never exceeds the number of history entries
C37_SearchOffsetBelowHistory ==
    l.searchOffset >= 0 => l.searchOffset <= Len(l.history)

\* a search backwards that fails leaves the offset one below what it was:
\* 2^32 - 1 when it was 0
C37_FailedSearchDecrements ==
    [][\A k \in {SearchBackwardsKey} :
           (obs'.key = k /\ obs'.failed /\ l.searchOffsetState # "Forwards")
               => l'.searchOffset = U32(l.searchOffset - 1)]_vars

\* with a wrapped offset no search backwards finds an entry
C37_WrappedOffsetFindsNothing ==
    [][(l.searchOffset < 0 /\ obs'.key = SearchBackwardsKey) => obs'.failed]_vars

---------------------------------------------------------------------------
(* SpecPager: the page the pager shows.  display caches the pages as      *)
(* ranges [start, end) that follow one another from 0 to the number of    *)
(* suggestions, and asks fitToPageBoundary for the page of the selected   *)
(* suggestion, manager.nextIndex().  The selection starts at the first    *)
(* suggestion and moves on by one with every tab.                         *)

\* suggestions in the list
MaxPagerCount == 5

\* sort.Search(n, f): binary search for the smallest index in [0, n) where
\* f holds; f here is pages[i].start >= selectionIndex
RECURSIVE sortSearch(_, _, _, _)
sortSearch(ps, selectionIndex, i, j) ==
    IF i >= j THEN i
    ELSE LET h == (i + j) \div 2 IN
         IF ~(At(ps, h).start >= selectionIndex)
         THEN sortSearch(ps, selectionIndex, h + 1, j)
         ELSE sortSearch(ps, selectionIndex, i, h)

\* suggestionDisplayImpl.fitToPageBoundary
fitToPageBoundary(ps, selectionIndex) ==
    LET index == sortSearch(ps, selectionIndex, 0, Len(ps)) IN
    IF index = Len(ps) THEN U32(Len(ps) - 1) ELSE U32(index)

\* the pages display caches for total suggestions with a new page started
\* at the indices of cuts
RECURSIVE PagesOf(_, _, _)
PagesOf(cuts, pageStart, total) ==
    IF cuts = {} THEN <<[start |-> pageStart, end |-> total]>>
    ELSE LET index == CHOOSE c \in cuts : \A d \in cuts : c <= d IN
         <<[start |-> pageStart, end |-> index]>>
             \o PagesOf(cuts \ {index}, index, total)

\* every partition of up to MaxPagerCount suggestions in pages that are
\* not empty
PagePartitions ==
    UNION {{PagesOf(cuts, 0, total) : cuts \in SUBSET (1..(total - 1))} :
              total \in 1..MaxPagerCount}

InitPager ==
    /\ l = NewEditor
    /\ NoLoop
    /\ \E ps \in PagePartitions :
           obs = [op |-> "pages", pages |-> ps,
                  selectionIndex |-> 0, pageIndex |-> 0]

\* display chooses the page
DoFitToPageBoundary ==
    /\ obs.op = "pages"
    /\ obs' = [obs EXCEPT !.op = "fit",
                          !.pageIndex = fitToPageBoundary(obs.pages,
                                                          obs.selectionIndex)]
    /\ UNCHANGED <<l, gl, reader, env>>

\* the selection moves to the next suggestion and display runs again
DoPagerNext ==
    /\ obs.op = "fit"
    /\ obs.selectionIndex + 1 < obs.pages[Len(obs.pages)].end
    /\ obs' = [obs EXCEPT !.selectionIndex = @ + 1,
                          !.pageIndex =
                              fitToPageBoundary(obs.pages,
                                                obs.selectionIndex + 1)]
    /\ UNCHANGED <<l, gl, reader, env>>

NextPager ==
    \/ DoFitToPageBoundary
    \/ DoPagerNext

SpecPager == InitPager /\ [][NextPager]_vars

\* the page displayed
DisplayedPage == At(obs.pages, obs.pageIndex)

\* C38: whenever the pager is displayed with more than one page, the page
\* chosen is the one whose range [start, end) contains the index of the
\* selected suggestion.
C38_PageContainsSelection ==
    (obs.op = "fit" /\ Len(obs.pages) > 1) =>
        /\ obs.pageIndex < Len(obs.pages)
        /\ DisplayedPage.start <= obs.selectionIndex
        /\ obs.selectionIndex < DisplayedPage.end

\* the page chosen is the first page that starts at or after the
\* selection, and the last page when there is none
C38_FirstPageStartingAtOrAfter ==
    obs.op = "fit" =>
        LET later == {i \in 0..(Len(obs.pages) - 1) :
                         At(obs.pages, i).start >= obs.selectionIndex} IN
        IF later = {} THEN obs.pageIndex = Len(obs.pages) - 1
        ELSE /\ obs.pageIndex \in later
             /\ \A i \in later : obs.pageIndex <= i

\* the page chosen contains the selection when the selection is the first
\* suggestion of a page or is on the last page
C38_PageStartsAndLastPage ==
    (/\ obs.op = "fit"
     /\ \/ \E i \in 1..Len(obs.pages) : obs.pages[i].start = obs.selectionIndex
        \/ obs.selectionIndex >= obs.pages[Len(obs.pages)].start) =>
        /\ DisplayedPage.start <= obs.selectionIndex
        /\ obs.selectionIndex < DisplayedPage.end

---------------------------------------------------------------------------
(* C40, under SpecDecode: what a CSI sequence leaves in the parameter     *)
(* buffers.                                                               *)

\* the CSI sequence of the script is reinjected as pasted text: it is in a
\* paste, its final byte is not '~' and its first parameter is not 201
CsiReinjected ==
    /\ obs.script.kind = "inpaste" /\ l.enableBracketedPaste
    /\ obs.script.final # 126
    /\ obs.script.params # <<50, 48, 49>>

\* the CSI sequence of the script is rejected as invalid: its last byte is
\* no final byte and it is not reinjected
CsiInvalid ==
    /\ ~(obs.script.final >= 64 /\ obs.script.final <= 127)
    /\ \/ obs.script.kind = "free"
       \/ /\ obs.script.kind = "inpaste" /\ l.enableBracketedPaste
          /\ obs.script.params = <<50, 48, 49>>

\* the paste of the script has ended
PasteEnded == l.state = "Free" \/ gl.pc = "idle"

\* C40: right after a CSI sequence that was reinjected in a paste or
\* rejected as invalid the parameter and intermediate buffers are empty,
\* and the stop-paste sequence that follows in the paste ends the paste.
C40_CsiBuffersEmptied ==
    (CsiReinjected \/ CsiInvalid) =>
        /\ obs.pos = CsiEnd(obs.script) =>
               /\ l.csiParameterBytes = <<>>
               /\ l.csiIntermediateBytes = <<>>
        /\ (obs.script.kind = "inpaste" /\ ScriptRead) => PasteEnded

\* a reinjected or invalid sequence leaves its own parameter and
\* intermediate bytes in the buffers
C40_BytesLeftBehind ==
    ((CsiReinjected \/ CsiInvalid) /\ obs.pos = CsiEnd(obs.script)) =>
        /\ l.csiParameterBytes = obs.script.params
        /\ l.csiIntermediateBytes = obs.script.inter

\* after a reinjected sequence with parameter bytes the stop-paste
\* sequence is not recognised: the decoder is still in the paste when the
\* input is read
C40_StalePasteNeverEnds ==
    (CsiReinjected /\ obs.script.params # <<>> /\ ScriptRead) =>
        l.state = "Paste"

---------------------------------------------------------------------------
(* SpecPaste: an escape inside a paste.  Bracketed paste is enabled and    *)
(* the terminal sends "ab", the start-paste sequence, "x", ESC and a code  *)
(* point, "y", the stop-paste sequence and a newline, which the loop task  *)
(* reads in pieces of any size.  obs.after is the code point after ESC,    *)
(* obs.pos the number of bytes read so far and obs.called the key-binding  *)
(* callbacks invoked since the paste started.                              *)

\* the code points after ESC: "b" and "d" (Alt-b and Alt-d are bound by
\* default), "q" (unbound) and ESC
PasteEscapeInputs == {98, 100, 113, 27}

\* "ab", ESC [ 200 ~, "x", ESC
PasteHead == <<97, 98>> \o PasteStart \o <<120, 27>>

PasteInput(after) == PasteHead \o <<after, 121>> \o PasteStop \o <<10>>

InitPaste ==
    /\ \E ph \in {"nil", "set"} :
           l = GetLineEnter([NewEditor EXCEPT !.enableBracketedPaste = TRUE,
                                              !.pasteHandler = ph],
                            Prompt, <<>>)
    /\ NoLoop
    /\ \E after \in PasteEscapeInputs :
           obs = [after |-> after, pos |-> 0, called |-> <<>>]

\* the loop task runs tryUpdateOnce, whose read takes the next n bytes
PasteRead ==
    \E n \in 1..KeyBufSize :
        /\ gl.pc = "edit"
        /\ l.loopChan = <<>>
        /\ obs.pos + n <= Len(PasteInput(obs.after))
        /\ l' = tryUpdateOnceEnd(
                    Started(l),
                    SubSeq(PasteInput(obs.after), obs.pos + 1, obs.pos + n))
        /\ obs' = [obs EXCEPT !.pos = @ + n,
                              !.called = IF obs.pos + n <= Len(PasteStart) + 2
                                         THEN <<>>
                                         ELSE @ \o l'.calls]
        /\ gl' = [gl EXCEPT !.pc = IF l'.blockedOn = "none" THEN @
                                   ELSE AfterHandler(l')]
        /\ UNCHANGED <<reader, env>>

NextPaste ==
    \/ PasteRead
    \/ DecodeReturn

SpecPaste == InitPaste /\ [][NextPaste]_vars

\* the input was read up to the code point after ESC and no further
AfterEscape == obs.pos = Len(PasteHead) + 1

\* the input was read into the paste and not beyond "y"
InsidePaste ==
    obs.pos >= Len(PasteStart) + 2 /\ obs.pos <= Len(PasteHead) + 2

\* C39: inside a paste no key-binding callback is invoked and the decoder
\* does not return to the free state: after ESC and a code point other than
\* "[" no callback has run and the decoder is not in the free state.
C39_PasteDispatchesNoBinding ==
    InsidePaste =>
        /\ obs.called = <<>>
        /\ l.state # "Free"

\* ESC and a code point other than "[" in a paste put the decoder in the
\* free state
C39_EscapeLeavesPaste == AfterEscape => l.state = "Free"

\* before the ESC the paste invokes no callback and stays in paste mode
C39_PlainPasteStays ==
    (obs.pos >= Len(PasteStart) + 2 /\ obs.pos < Len(PasteHead)) =>
        obs.called = <<>> /\ l.state = "Paste"

=============================================================================
